---------------------------- MODULE Spec2Model ----------------------------
(***************************************************************************)
(* Retrieval pipeline of the document question-answering backend:          *)
(*   app/services/chunking.py       chunk_text, chunk_text_simple          *)
(*   app/services/embeddings.py     EmbeddingService                       *)
(*   app/services/chroma_client.py  ChromaDBClient                         *)
(*   app/workers/tasks.py           process_document_upload,               *)
(*                                  query_workspace_knowledge              *)
(*                                                                         *)
(* Abstractions.                                                           *)
(*  - A text is the sequence of pieces the text splitter cuts it into.  A  *)
(*    piece is a number: 0 is a piece that is empty after strip(), i > 0   *)
(*    is the i-th piece with content.  A query is one piece.               *)
(*  - An exception is a record [msg, kw]: msg names the message template,  *)
(*    kw is the set of classification keywords that occur in the lowered   *)
(*    message text.  Every classifier of the code is a substring test for  *)
(*    a list of keywords, and is modelled as such.                         *)
(*  - A vector is the record [text, by]: the embedding of `text` produced  *)
(*    by provider `by`.                                                    *)
(*  - The provider SDKs, the PDF extractor, the text splitter and the      *)
(*    vector database are outside the repository; what they answer is an   *)
(*    input of the action that calls them.                                 *)
(***************************************************************************)
EXTENDS Integers, Sequences, FiniteSets, TLC

VARIABLES
    settings,      \* app.core.config.settings: the two API keys
    collections,   \* the vector database: collection of each workspace
    workspaces,    \* the rows of the table "workspaces" (app/db/models.py)
    run,           \* what the last call was given and what it did
    result         \* the dict the last call returned

vars == <<settings, collections, workspaces, run, result>>

----------------------------------------------------------------------------
(* Bounds of the model *)

\* a document is cut into at most MaxPieces pieces with content
MaxPieces == 4

\* the vector database is not grown beyond MaxStored records
MaxStored == 4

\* settings.max_chunks_per_document, read from MAX_CHUNKS_PER_DOCUMENT (15
\* when unset): set below MaxPieces, so that documents are capped
max_chunks_per_document == 3

(* Program constants *)

\* settings.embedding_batch_size (EMBEDDING_BATCH_SIZE; 2 when unset)
embedding_batch_size == 2

\* max_retries of _retry_with_backoff as get_gemini_embeddings calls it
max_retries == 5

\* top_k of query_workspace_knowledge
top_k == 5

None == "None"

\* an Optional value that is not a string: None is Nothing, v is Just(v)
Nothing == <<>>
Just(v) == <<v>>

Workspaces == {"w1", "w2"}
\* the embedding_provider the callers pass: chat_with_workspace passes
\* "gemini", upload_document leaves the default "gemini"
Providers == {"gemini"}
FileNames == {"a.pdf"}

\* API key values: unset, the placeholder key, a real key
GeminiKeys == {"", "key"}
OpenAIKeys == {"", "sk-test-", "sk-live"}

----------------------------------------------------------------------------
(* Sequences *)

Min(a, b) == IF a < b THEN a ELSE b

\* s[:n]
Take(s, n) == SubSeq(s, 1, Min(n, Len(s)))

\* [x for x in s if x.strip()]: 0 is the piece that is blank
RECURSIVE Stripped(_)
Stripped(s) ==
    IF s = <<>> THEN <<>>
    ELSE IF Head(s) # 0 THEN <<Head(s)>> \o Stripped(Tail(s))
    ELSE Stripped(Tail(s))

----------------------------------------------------------------------------
(* Exceptions and their classification *)

Keywords ==
    {"429", "quota", "rate limit", "resource_exhausted", "too many requests",
     "exceeded"}

Error(m, k) == [msg |-> m, kw |-> k]

\* any(keyword in error_msg for keyword in list)
AnyKeyword(e, list) == e.kw \cap list # {}

\* str(e) of the exceptions a provider SDK raises: one of each kind the
\* classifiers tell apart
ProviderErrors ==
    { Error("sdk", {}),
      Error("sdk", {"429", "quota"}),
      Error("sdk", {"resource_exhausted"}),
      Error("sdk", {"too many requests"}),
      Error("sdk", {"exceeded"}) }

\* what one provider does during one call of the embedding service.
\* failAt = 0: every request is answered.  failAt = k > 0: the k-th request
\* of the call raises err, `fails` times in a row when it is retried, and
\* every other request is answered.
Healthy == [failAt |-> 0, err |-> Error("sdk", {}), fails |-> 0]

\* the requests that may fail in a call with n requests: the first and the last
FailPoints(n) == {1, n} \ {0}

\* a failing request fails every time it is issued, or it fails once and
\* would be answered when issued again
Behaviours(n) ==
    {Healthy} \cup
    { [failAt |-> k, err |-> e, fails |-> max_retries] :
        k \in FailPoints(n), e \in ProviderErrors } \cup
    { [failAt |-> k, err |-> Error("sdk", {"429", "quota"}), fails |-> 1] :
        k \in FailPoints(n) }

\* the provider the service falls back to is asked for every text again: it
\* answers, or its first request fails, with a quota error or another
FallbackBehaviours ==
    { Healthy,
      [failAt |-> 1, err |-> Error("sdk", {}), fails |-> max_retries],
      [failAt |-> 1, err |-> Error("sdk", {"429", "quota"}), fails |-> max_retries] }

Ok(vs) == [ok |-> TRUE, vectors |-> vs]
Raise(e) == [ok |-> FALSE, error |-> e]

----------------------------------------------------------------------------
(* EmbeddingService *)

\* self.openai_client is created when the key is a non-empty string
openai_client == settings.openai_api_key # ""

RetryFinalKeywords == {"quota", "exceeded"}

\* _retry_with_backoff applied to the k-th request of a Gemini call
RetryClassifies(e) ==
    AnyKeyword(e, {"429", "quota", "rate limit", "resource_exhausted",
                   "too many requests"})

_retry_with_backoff(b, k) ==
    IF b.failAt # k THEN [ok |-> TRUE]
    ELSE IF RetryClassifies(b.err)
         THEN IF b.fails < max_retries
              THEN [ok |-> TRUE]
              ELSE Raise(Error("API quota exceeded after retries", RetryFinalKeywords))
         ELSE Raise(b.err)

\* the vectors of texts[1..upto], the texts that are blank skipped
Embedded(texts, upto, by) ==
    [i \in 1 .. Len(Stripped(SubSeq(texts, 1, upto))) |->
        [text |-> Stripped(SubSeq(texts, 1, upto))[i], by |-> by]]

\* number of requests a call with these texts issues when none fails
NumRequests(texts) == Len(Stripped(texts))

\* the loop over the batches that advances by one text too many
RECURSIVE gemini_batches_SkipsBetween(_, _)
gemini_batches_SkipsBetween(texts, i) ==
    IF i >= Len(texts) THEN <<>>
    ELSE LET batch == SubSeq(texts, i + 1, Min(i + embedding_batch_size, Len(texts)))
         IN Embedded(batch, Len(batch), "gemini") \o
            gemini_batches_SkipsBetween(texts, i + embedding_batch_size + 1)

\* for i in range(0, len(texts), batch_size): all_embeddings.extend(the
\* embeddings of texts[i:i + batch_size]); i is the offset of the batch
RECURSIVE gemini_batches(_, _)
gemini_batches(texts, i) ==
    IF i >= Len(texts) THEN <<>>
    ELSE LET batch == SubSeq(texts, i + 1, Min(i + embedding_batch_size, Len(texts)))
         IN Embedded(batch, Len(batch), "gemini") \o
            gemini_batches(texts, i + embedding_batch_size)

BatchClassifies(e) ==
    AnyKeyword(e, {"429", "quota", "rate limit", "resource_exhausted"})

get_gemini_embeddings(texts, b) ==
    IF settings.gemini_api_key = ""
    THEN Raise(Error("Gemini API key not configured", {}))
    ELSE IF b.failAt = 0 \/ b.failAt > NumRequests(texts)
         THEN Ok(gemini_batches(texts, 0))
         ELSE LET r == _retry_with_backoff(b, b.failAt) IN
              IF r.ok
              THEN Ok(gemini_batches(texts, 0))
              ELSE IF BatchClassifies(r.error)
                   THEN Raise(Error("Embedding quota exceeded", {"quota", "exceeded"}))
                   ELSE Raise(r.error)

get_openai_embeddings(texts, b) ==
    IF ~openai_client
    THEN Raise(Error("OpenAI API key not configured", {}))
    ELSE IF b.failAt = 0 \/ b.failAt > NumRequests(texts)
         THEN Ok(Embedded(texts, Len(texts), "openai"))
         ELSE Raise(b.err)

FallbackClassifies(e) ==
    AnyKeyword(e, {"rate limit", "quota", "429", "exceeded"})

\* the fallback condition with the `not` of the placeholder test dropped
openai_fallback_configured_PlaceholderOnly ==
    openai_client /\ settings.openai_api_key # "" /\ settings.openai_api_key = "sk-test-"

\* the OpenAI fallback is tried only with a client and a key that is set
\* and is not the placeholder
openai_fallback_configured ==
    openai_client /\ settings.openai_api_key # "" /\ settings.openai_api_key # "sk-test-"

\* the call of the requested provider, before any fallback
primary_call(texts, provider, bg, bo) ==
    IF provider = "openai" THEN get_openai_embeddings(texts, bo)
    ELSE IF provider = "gemini" THEN get_gemini_embeddings(texts, bg)
    ELSE Raise(Error("Unsupported embedding provider", {}))

\* a fallback that keeps the vectors the requested provider had produced
\* before it failed and appends those of the other provider
get_embeddings_KeepsPartial(texts, provider, bg, bo) ==
    LET first == primary_call(texts, provider, bg, bo)
        b == IF provider = "gemini" THEN bg ELSE bo
        fb == IF provider = "gemini" THEN get_openai_embeddings(texts, bo)
              ELSE get_gemini_embeddings(texts, bg)
    IN IF first.ok \/ ~FallbackClassifies(first.error) THEN first
       ELSE IF fb.ok
            THEN Ok(Take(Embedded(texts, Len(texts), provider), b.failAt - 1) \o fb.vectors)
            ELSE fb

\* bg, bo: what Gemini and OpenAI do during this call
get_embeddings(texts, provider, bg, bo) ==
    LET first == primary_call(texts, provider, bg, bo) IN
    IF first.ok THEN first
    ELSE LET e == first.error IN
         IF ~FallbackClassifies(e) THEN first
         ELSE IF provider = "gemini"
              THEN LET fb == IF openai_fallback_configured
                             THEN get_openai_embeddings(texts, bo)
                             ELSE Raise(e)
                   IN IF openai_fallback_configured /\ fb.ok THEN fb
                      ELSE Raise(Error("Gemini quota exceeded and no valid fallback available",
                                       e.kw \cup {"quota", "exceeded"}))
              ELSE IF provider = "openai"
                   THEN IF settings.gemini_api_key # ""
                        THEN LET fb == get_gemini_embeddings(texts, bg) IN
                             IF fb.ok THEN fb
                             ELSE Raise(Error("Both OpenAI and Gemini embedding providers failed",
                                              e.kw \cup fb.error.kw))
                        ELSE Raise(Error("OpenAI rate limit exceeded and no Gemini API key configured",
                                         e.kw \cup {"rate limit", "exceeded"}))
                   ELSE first

\* embeddings[0] if embeddings else []
get_query_embedding(query, provider, bg, bo) ==
    LET r == get_embeddings(<<query>>, provider, bg, bo) IN
    IF ~r.ok THEN r
    ELSE IF r.vectors # <<>> THEN [ok |-> TRUE, vector |-> <<r.vectors[1]>>]
         ELSE [ok |-> TRUE, vector |-> <<>>]

check_provider_availability(provider) ==
    IF provider = "gemini"
    THEN IF settings.gemini_api_key = ""
         THEN [available |-> FALSE, reason |-> "Gemini API key not configured"]
         ELSE [available |-> TRUE, reason |-> None]
    ELSE IF provider = "openai"
         THEN IF ~openai_client \/ settings.openai_api_key = ""
                 \/ settings.openai_api_key = "sk-test-"
              THEN [available |-> FALSE, reason |-> "OpenAI API key not configured or invalid"]
              ELSE [available |-> TRUE, reason |-> None]
         ELSE [available |-> FALSE, reason |-> "Unsupported provider"]


----------------------------------------------------------------------------
(* ChromaDBClient *)

\* str(e) of the exceptions the vector database raises
StoreErrors == { Error("chroma", {}), Error("chroma", {"quota"}) }

\* what the vector database answers to one request: it serves it or raises
StoreOk == [ok |-> TRUE]
StoreAnswers == {StoreOk} \cup { Raise(e) : e \in StoreErrors }

\* the answers to a request whose error text no caller classifies
PlainAnswers == {StoreOk, Raise(Error("chroma", {}))}

\* one collection for every workspace
collection_name_Shared(workspace_id) == "w1"

\* workspace_{workspace_id}: the names are in one-to-one correspondence with
\* the workspace ids, and the model names a collection by the id
collection_name(workspace_id) == workspace_id

\* the ids add_documents generates when the caller passes none: doc_0, doc_1, ...
default_ids(documents) == [i \in 1 .. Len(documents) |-> <<"doc", i - 1>>]

\* records handed to collection.add without the embeddings
Records_WithoutVectors(documents, embeddings, metadatas, ids) ==
    [i \in 1 .. Len(documents) |->
        [id |-> ids[i], document |-> documents[i], embedding |-> Nothing,
         metadata |-> metadatas[i]]]

\* the records add_documents hands to collection.add: ids[i], documents[i]
\* with metadatas[i] and, when embeddings is not None, embeddings[i]
\* (an Optional value is Nothing or Just(v))
Records(documents, embeddings, metadatas, ids) ==
    [i \in 1 .. Len(documents) |->
        [id |-> ids[i],
         document |-> documents[i],
         embedding |-> IF embeddings = Nothing THEN Nothing ELSE Just(embeddings[1][i]),
         metadata |-> metadatas[i]]]

\* the ids of the records a collection holds
IdsOf(coll) == { coll[i].id : i \in 1 .. Len(coll) }

\* the database serves the request, and raises when a record carries an id
\* the collection already holds (StoreOk skips such a record instead)
StoreOkStrict == [ok |-> TRUE, on_existing |-> "raise"]

RaisesOnExisting(db) == "on_existing" \in DOMAIN db /\ db.on_existing = "raise"

\* collection.add: the records are appended; a record whose id the
\* collection already holds is skipped or makes the whole request raise,
\* as the installed database does
collection_add(coll, records, db) ==
    LET fresh(r) == r.id \notin IdsOf(coll)
    IN  IF ~db.ok
        THEN db
        ELSE IF RaisesOnExisting(db) /\ \E i \in 1 .. Len(records) : ~fresh(records[i])
        THEN Raise(Error("ID already exists", {}))
        ELSE [ok |-> TRUE, collection |-> coll \o SelectSeq(records, fresh)]

\* the metadata add_documents generates when the caller passes none
default_metadatas(documents) == [i \in 1 .. Len(documents) |-> [index |-> i - 1]]

\* add_documents: the collection after the call; ids that are None become
\* doc_0, doc_1, ... and metadatas that are None {"index": i}; an exception
\* of the database is logged and raised again, and nothing is added
add_documents(coll, documents, embeddings, metadatas, ids, db) ==
    collection_add(coll,
                   Records(documents, embeddings,
                           IF metadatas = Nothing THEN default_metadatas(documents)
                           ELSE metadatas[1],
                           IF ids = Nothing THEN default_ids(documents) ELSE ids[1]),
                   db)

\* get_collection_info: a database error is reported as count 0
get_collection_info(coll, db) ==
    IF db.ok THEN [count |-> Len(coll)] ELSE [count |-> 0, error |-> db.error]

\* collection.query returns (at most) n_results records, in the order of
\* the database's relevance; the model takes the collection's order
query_collection(coll, n_results, db) ==
    IF db.ok THEN [ok |-> TRUE, records |-> Take(coll, n_results)] ELSE db

query_with_text(coll, n_results, db) ==
    IF db.ok THEN [ok |-> TRUE, records |-> Take(coll, n_results)] ELSE db

----------------------------------------------------------------------------
(* chunking *)

\* the pieces of a text with n pieces of content, behind a blank leading
\* piece when lead is set
Pieces(n, lead) == (IF lead THEN <<0>> ELSE <<>>) \o [i \in 1 .. n |-> i]

\* text.strip() is empty
BlankText(text) == \A i \in DOMAIN text : text[i] = 0

\* the uploaded files: whether the PDF extractor reads the file, the text it
\* extracts and whether the text splitter raises on it.  A file is not read,
\* or its text is blank, or the splitter raises on it, or its text fills at
\* least one embedding batch, behind a blank piece or not.
Documents ==
    { [extraction_success |-> FALSE, text |-> <<>>, splitter_ok |-> TRUE],
      [extraction_success |-> TRUE, text |-> Pieces(0, TRUE), splitter_ok |-> TRUE],
      [extraction_success |-> TRUE, text |-> Pieces(embedding_batch_size, FALSE),
       splitter_ok |-> FALSE],
      [extraction_success |-> TRUE, text |-> Pieces(embedding_batch_size, TRUE),
       splitter_ok |-> TRUE],
      [extraction_success |-> TRUE, text |-> Pieces(max_chunks_per_document, TRUE),
       splitter_ok |-> TRUE] } \cup
    { [extraction_success |-> TRUE, text |-> Pieces(n, FALSE), splitter_ok |-> TRUE] :
        n \in embedding_batch_size .. MaxPieces }

\* a chunk_text that goes on with the pieces when the splitter has raised
chunk_text_IgnoresSplitterError(doc) ==
    IF BlankText(doc.text) THEN <<>> ELSE Stripped(doc.text)

\* chunk_text: the texts of the chunk objects; blank pieces are dropped and
\* any exception gives the empty list
chunk_text(doc) ==
    IF BlankText(doc.text) THEN <<>>
    ELSE IF ~doc.splitter_ok THEN <<>>
    ELSE Stripped(doc.text)

chunk_text_simple(doc) == chunk_text(doc)

\* a cap that keeps the last chunks
Capped_KeepsLast(chunks) ==
    IF Len(chunks) > max_chunks_per_document
    THEN SubSeq(chunks, Len(chunks) - max_chunks_per_document + 1, Len(chunks))
    ELSE chunks

\* chunks[:max_chunks_for_free_tier] when there are more
Capped(chunks) ==
    IF Len(chunks) > max_chunks_per_document
    THEN Take(chunks, max_chunks_per_document)
    ELSE chunks


----------------------------------------------------------------------------
(* process_document_upload *)

IngestClassifies(e) ==
    AnyKeyword(e, {"quota", "rate limit", "429", "resource_exhausted"})

\* Step 4, the body of the inner try block: the exception it raises, or
\* the embeddings.  status is what check_provider_availability returned and
\* emb what get_embeddings returns when it is called.
embed_try(chunks, status, emb) ==
    IF ~status.available
    THEN [ok |-> TRUE, embeddings |-> Nothing, embedding_failed |-> TRUE,
          warning_message |-> "Embedding provider not configured"]
    ELSE IF ~emb.ok THEN Raise(emb.error)
    ELSE IF Len(emb.vectors) # Len(chunks)
         THEN Raise(Error("Embedding count mismatch", {}))
         ELSE [ok |-> TRUE, embeddings |-> Just(emb.vectors),
               embedding_failed |-> FALSE, warning_message |-> None]

\* a handler of step 4 that lets an error that is not a quota error go on
\* to the outer handler
embed_handler_Reraises(e) ==
    IF IngestClassifies(e)
    THEN [embeddings |-> Nothing, embedding_failed |-> TRUE,
          warning_message |-> "Embeddings skipped due to API quota limits",
          raised |-> Nothing]
    ELSE [embeddings |-> Nothing, embedding_failed |-> TRUE,
          warning_message |-> "Embeddings failed", raised |-> Just(e)]

\* a handler of step 4 that does not set embedding_failed
embed_handler_KeepsFlag(e) ==
    [embeddings |-> Nothing, embedding_failed |-> FALSE,
     warning_message |->
         IF IngestClassifies(e)
         THEN "Embeddings skipped due to API quota limits"
         ELSE "Embeddings failed",
     raised |-> Nothing]

\* Step 4, the handler of the inner try block, for the exception e: it sets
\* the warning and raises nothing (raised: the exception that leaves step 4)
embed_handler(e) ==
    [embeddings |-> Nothing, embedding_failed |-> TRUE,
     warning_message |->
         IF IngestClassifies(e)
         THEN "Embeddings skipped due to API quota limits"
         ELSE "Embeddings failed",
     raised |-> Nothing]

\* Step 4: what it leaves in embeddings, embedding_failed and
\* warning_message, the exception its handler caught and the calls it made
embed_stage(chunks, status, emb) ==
    LET t == embed_try(chunks, status, emb)
        calls == IF status.available
                 THEN <<"check_provider_availability", "get_embeddings">>
                 ELSE <<"check_provider_availability">>
    IN IF t.ok
       THEN [embeddings |-> t.embeddings, embedding_failed |-> t.embedding_failed,
             warning_message |-> t.warning_message, raised |-> Nothing,
             caught |-> Nothing, calls |-> calls]
       ELSE embed_handler(t.error) @@ [caught |-> Just(t.error), calls |-> calls]

\* metadata that always claim a vector
Metadata_AlwaysWithEmbeddings(i, workspace_id, file_name, embedding_provider, embedding_failed) ==
    [chunk_index |-> i - 1, workspace_id |-> workspace_id, file_name |-> file_name,
     embedding_provider |-> embedding_provider, has_embeddings |-> TRUE,
     processing_mode |-> "with_embeddings"]

\* the metadata of chunk i (chunk_index counts from 0)
Metadata(i, workspace_id, file_name, embedding_provider, embedding_failed) ==
    [chunk_index |-> i - 1,
     workspace_id |-> workspace_id,
     file_name |-> file_name,
     embedding_provider |-> embedding_provider,
     has_embeddings |-> ~embedding_failed,
     processing_mode |-> IF embedding_failed THEN "text_only" ELSE "with_embeddings"]

\* the dict of the outer handler
UploadFailure(workspace_id, e) ==
    [success |-> FALSE, workspace_id |-> workspace_id, error |-> e]

\* len(embeddings) if embeddings else 0
EmbeddingsGenerated(embeddings) ==
    IF embeddings # Nothing /\ embeddings[1] # <<>> THEN Len(embeddings[1]) ELSE 0

StorageMode(embeddings) ==
    IF embeddings # Nothing /\ embeddings[1] # <<>> THEN "with_embeddings" ELSE "text_only"

\* processing_stats: the sizes are counted in pieces, every piece (blank or
\* not) being one unit long
ProcessingStats(text, chunks) ==
    [total_chunks |-> Len(chunks),
     total_characters |-> Len(text),
     max_chunks_processed |->
         IF Len(chunks) = max_chunks_per_document
         THEN max_chunks_per_document ELSE Len(chunks)]

\* a result that tells whether the cap has dropped chunks
UploadSuccess_TellsTruncation(workspace_id, file_name, text, chunks, embeddings, embedding_provider, warning) ==
    [success |-> TRUE,
     workspace_id |-> workspace_id,
     file_name |-> file_name,
     chunks_processed |-> Len(chunks),
     total_documents |-> Len(chunks),
     embeddings_generated |-> EmbeddingsGenerated(embeddings),
     storage_mode |-> StorageMode(embeddings),
     embedding_provider |-> embedding_provider,
     warning |-> warning,
     collection_name |-> collection_name(workspace_id),
     file_metadata |-> [extraction_success |-> TRUE, total_characters |-> Len(text)],
     processing_stats |-> ProcessingStats(text, chunks),
     truncated |-> Len(Stripped(text)) > max_chunks_per_document]

UploadSuccess(workspace_id, file_name, text, chunks, embeddings, embedding_provider, warning) ==
    [success |-> TRUE,
     workspace_id |-> workspace_id,
     file_name |-> file_name,
     chunks_processed |-> Len(chunks),
     total_documents |-> Len(chunks),
     embeddings_generated |-> EmbeddingsGenerated(embeddings),
     storage_mode |-> StorageMode(embeddings),
     embedding_provider |-> embedding_provider,
     warning |-> warning,
     collection_name |-> collection_name(workspace_id),
     file_metadata |-> [extraction_success |-> TRUE, total_characters |-> Len(text)],
     processing_stats |-> ProcessingStats(text, chunks)]

\* uuid.uuid4().hex[:8] for the i-th id of a call: a value that no id of the
\* collection carries (the ids of earlier calls carry values up to the
\* length the collection had then)
uuid4(coll, i) == Len(coll) + i

\* ids without the uuid part: chunk_{i}
doc_ids_WithoutUuid(chunks, coll) == [i \in 1 .. Len(chunks) |-> <<"chunk", i - 1, 0>>]

\* doc_ids: chunk_{i}_{uuid}
doc_ids(chunks, coll) == [i \in 1 .. Len(chunks) |-> <<"chunk", i - 1, uuid4(coll, i)>>]

\* what the call was given and did, when it ended before step 4
UploadRunEarly(workspace_id, provider, doc, chunks) ==
    [op |-> "process_document_upload", workspace_id |-> workspace_id,
     embedding_provider |-> provider, document |-> doc, chunks |-> chunks,
     before |-> collections[workspace_id],
     available |-> FALSE, embedded |-> Nothing, stage |-> Nothing,
     store |-> Nothing, calls |-> <<>>]

\* the whole call.  emb: what get_embeddings returns for the capped chunks;
\* db: what the vector database answers to collection.add
Upload(workspace_id, file_name, doc, provider, emb, db) ==
    LET all == chunk_text_simple(doc)
        chunks == Capped(all)
        status == check_provider_availability(provider)
        st == embed_stage(chunks, status, emb)
        metadatas == [i \in 1 .. Len(chunks) |->
                        Metadata(i, workspace_id, file_name, provider, st.embedding_failed)]
        added == add_documents(collections[workspace_id], chunks, st.embeddings,
                               Just(metadatas),
                               Just(doc_ids(chunks, collections[workspace_id])), db)
    IN
    IF ~doc.extraction_success
    THEN /\ result' = UploadFailure(workspace_id, Error("PDF extraction failed", {}))
         /\ run' = UploadRunEarly(workspace_id, provider, doc, <<>>)
         /\ UNCHANGED collections
    ELSE IF BlankText(doc.text)
    THEN /\ result' = UploadFailure(workspace_id, Error("No text content found in PDF", {}))
         /\ run' = UploadRunEarly(workspace_id, provider, doc, <<>>)
         /\ UNCHANGED collections
    ELSE IF all = <<>>
    THEN /\ result' = UploadFailure(workspace_id, Error("No valid chunks created from text", {}))
         /\ run' = UploadRunEarly(workspace_id, provider, doc, <<>>)
         /\ UNCHANGED collections
    ELSE IF st.raised # Nothing
    THEN /\ result' = UploadFailure(workspace_id, st.raised[1])
         /\ run' = [UploadRunEarly(workspace_id, provider, doc, chunks) EXCEPT
                        !.available = status.available,
                        !.embedded = IF status.available THEN Just(emb) ELSE Nothing,
                        !.stage = Just(st),
                        !.calls = st.calls]
         /\ UNCHANGED collections
    ELSE /\ run' = [UploadRunEarly(workspace_id, provider, doc, chunks) EXCEPT
                        !.available = status.available,
                        !.embedded = IF status.available THEN Just(emb) ELSE Nothing,
                        !.stage = Just(st),
                        !.store = Just(db),
                        !.calls = st.calls \o <<"add_documents">>]
         /\ IF added.ok
            THEN /\ collections' = [collections EXCEPT ![workspace_id] = added.collection]
                 /\ result' = UploadSuccess(workspace_id, file_name, doc.text, chunks, st.embeddings,
                                            provider, st.warning_message)
            ELSE /\ UNCHANGED collections
                 /\ result' = UploadFailure(workspace_id, added.error)


----------------------------------------------------------------------------
(* query_workspace_knowledge *)

\* the retrieval classifier with the keyword list of the ingestion
QueryClassifies_IngestList(e) ==
    AnyKeyword(e, {"quota", "rate limit", "429", "resource_exhausted"})

QueryClassifies(e) ==
    AnyKeyword(e, {"quota", "rate limit", "429", "exceeded", "resource_exhausted"})

\* the context chunks of an embedding query: rank counts from 1
ContextChunks(records) ==
    [i \in 1 .. Len(records) |->
        [text |-> records[i].document, metadata |-> records[i].metadata, rank |-> i]]

\* context chunks of the text fallback that do not carry its search method
FallbackChunks_Untagged(records) ==
    [i \in 1 .. Len(records) |->
        [text |-> records[i].document, metadata |-> records[i].metadata, rank |-> i]]

\* the context chunks of the text fallback carry its search method
FallbackChunks(records) ==
    [i \in 1 .. Len(records) |->
        [text |-> records[i].document, metadata |-> records[i].metadata, rank |-> i,
         search_method |-> "text_fallback"]]

\* an empty workspace reported as a failure
NoDocuments_AsFailure(workspace_id, query) ==
    [success |-> FALSE, workspace_id |-> workspace_id, query |-> query,
     context_chunks |-> <<>>, total_results |-> 0,
     search_method |-> "no_documents",
     warning |-> "This workspace has no documents uploaded"]

NoDocuments(workspace_id, query) ==
    [success |-> TRUE, workspace_id |-> workspace_id, query |-> query,
     context_chunks |-> <<>>, total_results |-> 0,
     search_method |-> "no_documents",
     warning |-> "This workspace has no documents uploaded"]

QuerySuccess(workspace_id, query, context_chunks, search_method, document_count, warning) ==
    [success |-> TRUE, workspace_id |-> workspace_id, query |-> query,
     context_chunks |-> context_chunks, total_results |-> Len(context_chunks),
     search_method |-> search_method, document_count |-> document_count,
     warning |-> warning]

\* a failure dict that reports a fixed message instead of str(e)
QueryFailure_Generic(workspace_id, query, e) ==
    [success |-> FALSE, workspace_id |-> workspace_id, query |-> query,
     error |-> Error("Query failed", {}), context_chunks |-> <<>>,
     document_count |-> 0]

\* a failure dict without the context chunks
QueryFailure_WithoutChunks(workspace_id, query, e) ==
    [success |-> FALSE, workspace_id |-> workspace_id, query |-> query,
     error |-> e, document_count |-> 0]

\* the dict of the outer handler
QueryFailure(workspace_id, query, e) ==
    [success |-> FALSE, workspace_id |-> workspace_id, query |-> query,
     error |-> e, context_chunks |-> <<>>, document_count |-> 0]

\* a handler of a quota error without the inner try block around the text
\* query: its exception goes on to the outer handler
text_fallback_Propagates(coll, workspace_id, query, document_count, dbt) ==
    LET results == query_with_text(coll, top_k, dbt) IN
    IF results.ok
    THEN QuerySuccess(workspace_id, query, FallbackChunks(results.records),
                      "text_fallback", document_count,
                      "Using text-based search due to embedding quota limits")
    ELSE QueryFailure(workspace_id, query, results.error)

\* the handler of a quota error of the inner try block: the text query, and
\* an empty result when it raises too
text_fallback(coll, workspace_id, query, document_count, dbt) ==
    LET results == query_with_text(coll, top_k, dbt) IN
    IF results.ok
    THEN QuerySuccess(workspace_id, query, FallbackChunks(results.records),
                      "text_fallback", document_count,
                      "Using text-based search due to embedding quota limits")
    ELSE QuerySuccess(workspace_id, query, <<>>, "failed", document_count,
                      "Knowledge base search failed")

\* the inner try block: the query embedding, then the vector query.
\* Gives the exception it raises, or the records found.
embedding_search(coll, qe, dbv) ==
    IF ~qe.ok THEN Raise(qe.error)
    ELSE IF qe.vector = <<>> THEN Raise(Error("Failed to generate query embedding", {}))
    ELSE query_collection(coll, top_k, dbv)

\* the whole call.  qe: what get_query_embedding returns; dbi, dbv, dbt: what
\* the vector database answers to the count, the vector query, the text query
Query(workspace_id, query, provider, qe, dbi, dbv, dbt) ==
    LET coll == collections[workspace_id]
        info == get_collection_info(coll, dbi)
        document_count == info.count
        found == embedding_search(coll, qe, dbv)
        base == [op |-> "query_workspace_knowledge", workspace_id |-> workspace_id,
                 embedding_provider |-> provider, query |-> query,
                 info |-> info]
    IN
    /\ UNCHANGED collections
    /\ IF document_count = 0
       THEN /\ result' = NoDocuments(workspace_id, query)
            /\ run' = base @@
                      [embedded |-> Nothing, vector_query |-> Nothing,
                       text_query |-> Nothing,
                       calls |-> <<"get_collection_info">>]
       ELSE IF found.ok
       THEN /\ result' = QuerySuccess(workspace_id, query, ContextChunks(found.records),
                                      "embedding", document_count, None)
            /\ run' = base @@
                      [embedded |-> Just(qe), vector_query |-> Just(dbv),
                       text_query |-> Nothing,
                       calls |-> <<"get_collection_info", "get_query_embedding",
                                   "query_collection">>]
       ELSE LET tried == IF qe.ok /\ qe.vector # <<>>
                         THEN <<"get_collection_info", "get_query_embedding",
                                "query_collection">>
                         ELSE <<"get_collection_info", "get_query_embedding">>
                vq == IF qe.ok /\ qe.vector # <<>> THEN Just(dbv) ELSE Nothing
            IN
            IF QueryClassifies(found.error)
            THEN /\ run' = base @@
                           [embedded |-> Just(qe), vector_query |-> vq,
                            text_query |-> Just(dbt),
                            calls |-> tried \o <<"query_with_text">>]
                 /\ result' = text_fallback(coll, workspace_id, query, document_count, dbt)
            ELSE /\ run' = base @@
                           [embedded |-> Just(qe), vector_query |-> vq,
                            text_query |-> Nothing, calls |-> tried]
                 /\ result' = QueryFailure(workspace_id, query, found.error)

----------------------------------------------------------------------------
(* The system: uploads and queries in any order *)

Queries == {0, 1}

NoRun == [op |-> "none"]

Init ==
    /\ settings \in [gemini_api_key : GeminiKeys, openai_api_key : OpenAIKeys]
    /\ collections = [w \in Workspaces |-> <<>>]
    /\ workspaces = {}
    /\ run = NoRun
    /\ result = NoRun

\* the behaviours to consider for a provider during a call with n requests:
\* only Healthy when the call does not reach the provider
BehavioursIf(reached, n) == IF reached THEN Behaviours(n) ELSE {Healthy}

FallbackBehavioursIf(reached) == IF reached THEN FallbackBehaviours ELSE {Healthy}

\* number of records in the vector database
RECURSIVE Stored(_)
Stored(ws) ==
    IF ws = {} THEN 0
    ELSE LET w == CHOOSE w \in ws : TRUE IN Len(collections[w]) + Stored(ws \ {w})

\* the call with the requested provider doing bp and the other provider bs
Embed(texts, provider, bp, bs) ==
    IF provider = "openai" THEN get_embeddings(texts, provider, bs, bp)
    ELSE get_embeddings(texts, provider, bp, bs)

\* get_embeddings is called and its first call fails in a way that makes it
\* turn to the other provider
TurnsToOther(texts, provider, bp) ==
    LET first == IF provider = "openai" THEN primary_call(texts, provider, Healthy, bp)
                 ELSE primary_call(texts, provider, bp, Healthy)
    IN ~first.ok /\ FallbackClassifies(first.error)

process_document_upload ==
    \E workspace_id \in Workspaces, file_name \in FileNames, doc \in Documents,
       provider \in Providers :
        LET chunks == Capped(chunk_text_simple(doc))
            called == chunks # <<>> /\ check_provider_availability(provider).available
        IN
        /\ Stored(Workspaces) + Len(chunks) <= MaxStored
        /\ \E bp \in BehavioursIf(called, Len(chunks)) :
           \E bs \in FallbackBehavioursIf(called /\ TurnsToOther(chunks, provider, bp)) :
           \E db \in IF chunks # <<>> THEN PlainAnswers ELSE {StoreOk} :
                Upload(workspace_id, file_name, doc, provider,
                       Embed(chunks, provider, bp, bs), db)
        /\ UNCHANGED <<settings, workspaces>>

query_workspace_knowledge ==
    \E workspace_id \in Workspaces, query \in Queries, provider \in Providers :
    \E dbi \in PlainAnswers :
        LET asked == get_collection_info(collections[workspace_id], dbi).count # 0 IN
        /\ \E bp \in BehavioursIf(asked, 1) :
           \E bs \in FallbackBehavioursIf(asked /\ TurnsToOther(<<query>>, provider, bp)) :
           LET qe == IF provider = "openai"
                     THEN get_query_embedding(query, provider, bs, bp)
                     ELSE get_query_embedding(query, provider, bp, bs)
               vq == asked /\ qe.ok /\ qe.vector # <<>>
           IN
           \E dbv \in IF vq THEN StoreAnswers ELSE {StoreOk} :
           \E dbt \in IF asked /\ ~embedding_search(collections[workspace_id], qe, dbv).ok
                         /\ QueryClassifies(embedding_search(collections[workspace_id], qe, dbv).error)
                      THEN PlainAnswers ELSE {StoreOk} :
                Query(workspace_id, query, provider, qe, dbi, dbv, dbt)
        /\ UNCHANGED <<settings, workspaces>>

Next == process_document_upload \/ query_workspace_knowledge

Spec == Init /\ [][Next]_vars


----------------------------------------------------------------------------
(* process_document_upload with the embedding service replaced by a stub:   *)
(* get_embeddings returns any list of vectors, or raises                    *)

StubbedEmbeddings(chunks) ==
    { Ok(Embedded(Take(chunks, k), k, "gemini")) : k \in 0 .. Len(chunks) } \cup
    { Ok(Embedded(chunks \o <<Len(chunks) + 1>>, Len(chunks) + 1, "gemini")) } \cup
    { Raise(e) : e \in ProviderErrors }

process_document_upload_stubbed ==
    \E workspace_id \in Workspaces, file_name \in FileNames, doc \in Documents,
       provider \in Providers :
        LET chunks == Capped(chunk_text_simple(doc))
            called == chunks # <<>> /\ check_provider_availability(provider).available
        IN
        /\ Stored(Workspaces) + Len(chunks) <= MaxStored
        /\ \E emb \in IF called THEN StubbedEmbeddings(chunks) ELSE {Ok(<<>>)} :
           \E db \in IF chunks # <<>> THEN PlainAnswers ELSE {StoreOk} :
                Upload(workspace_id, file_name, doc, provider, emb, db)
        /\ UNCHANGED <<settings, workspaces>>

NextStubbed == process_document_upload_stubbed \/ query_workspace_knowledge

SpecStubbed == Init /\ [][NextStubbed]_vars

----------------------------------------------------------------------------
(* What the last call was *)

IsUpload == run.op = "process_document_upload"
IsQuery == run.op = "query_workspace_knowledge"

\* the call reached step 4, the embedding of the capped chunks
ReachedEmbedding == IsUpload /\ run.stage # Nothing

\* get_embeddings was called and raised / returned
EmbeddingRaised == run.embedded # Nothing /\ ~run.embedded[1].ok
EmbeddingReturned == run.embedded # Nothing /\ run.embedded[1].ok

\* collection.add was served
StoreServed == run.store # Nothing /\ run.store[1].ok

\* the records the call appended to the collection of its workspace
Gained ==
    SubSeq(collections[run.workspace_id], Len(run.before) + 1,
           Len(collections[run.workspace_id]))

\* the call left the earlier records of its collection in place
KeptBefore == Take(collections[run.workspace_id], Len(run.before)) = run.before

\* the call stored every capped chunk without a vector, flagged as such
StoredTextOnly ==
    /\ KeptBefore
    /\ Len(Gained) = Len(run.chunks)
    /\ \A i \in DOMAIN Gained :
        /\ Gained[i].document = run.chunks[i]
        /\ Gained[i].embedding = Nothing
        /\ Gained[i].metadata.has_embeddings = FALSE

\* the call stored every capped chunk with its vector
StoredWithVectors ==
    /\ KeptBefore
    /\ Len(Gained) = Len(run.chunks)
    /\ \A i \in DOMAIN Gained :
        /\ Gained[i].document = run.chunks[i]
        /\ Gained[i].embedding # Nothing
        /\ Gained[i].embedding[1].text = run.chunks[i]

TextOnlyOutcome ==
    /\ result.success
    /\ result.chunks_processed = Len(run.chunks)
    /\ result.embeddings_generated = 0
    /\ result.storage_mode = "text_only"
    /\ result.warning # None

----------------------------------------------------------------------------
(* C1 *)

\* the provider is reported unavailable, or get_embeddings raised an error
\* that carries a quota / rate-limit keyword
C1_Case ==
    /\ ReachedEmbedding
    /\ \/ ~run.available
       \/ EmbeddingRaised /\ AnyKeyword(run.embedded[1].error, Keywords)

\* C1: when the availability check reports the provider unavailable, or
\* get_embeddings ends in a quota / rate-limit error, process_document_upload
\* does not abort at the embedding step: it goes on to collection.add with
\* no vectors and, the write being served, has stored every capped chunk
\* without a vector and flagged has_embeddings = false, and returns
\* success = true, embeddings_generated = 0, storage_mode = "text_only" and a
\* warning that is not None.
C1_TextOnlyOnUnavailableOrQuota ==
    C1_Case =>
        /\ run.calls[Len(run.calls)] = "add_documents"
        /\ run.stage[1].embeddings = Nothing
        /\ StoreServed => StoredTextOnly /\ TextOnlyOutcome

\* C1 witness: Gemini and the OpenAI fallback both ran out of quota, and the
\* three chunks of a capped document were stored as text
C1_Witness ==
    /\ C1_Case /\ run.available /\ StoreServed
    /\ run.embedded[1].error.msg = "Gemini quota exceeded and no valid fallback available"
    /\ Len(run.chunks) = max_chunks_per_document
    /\ result.success /\ result.storage_mode = "text_only"

----------------------------------------------------------------------------
(* C2 *)

\* the provider passed the availability check and get_embeddings raised an
\* error the pipeline's own classifier does not take for a quota error
C2_Case ==
    /\ ReachedEmbedding /\ run.available /\ EmbeddingRaised
    /\ ~IngestClassifies(run.embedded[1].error)

\* C2 as stated: such a failure aborts the pipeline, which returns
\* success = false with the error of the embedding call and stores nothing.
C2_NonQuotaFailureIsFatal ==
    C2_Case =>
        /\ ~result.success
        /\ result.error = run.embedded[1].error
        /\ collections[run.workspace_id] = run.before

\* C2 amended: a failure of the embedding call that is not classified as a
\* quota error does not abort the pipeline either: it goes on to
\* collection.add with no vectors and, the write being served, has stored
\* every capped chunk without a vector and returns success = true,
\* storage_mode = "text_only" and the warning "Embeddings failed".
C2_NonQuotaFailureDegrades ==
    C2_Case =>
        /\ run.calls[Len(run.calls)] = "add_documents"
        /\ run.stage[1].embeddings = Nothing
        /\ run.stage[1].caught = Just(run.embedded[1].error)
        /\ StoreServed =>
            /\ StoredTextOnly /\ TextOnlyOutcome
            /\ result.warning = "Embeddings failed"

\* C2 witness: Gemini raised an error without any quota keyword and the
\* chunks were stored as text
C2_Witness ==
    /\ C2_Case /\ StoreServed
    /\ run.embedded[1].error = Error("sdk", {})
    /\ result.success /\ result.warning = "Embeddings failed"
    /\ Len(Gained) = Len(run.chunks)


----------------------------------------------------------------------------
(* C3 *)

\* get_embeddings returned, with a number of vectors that is not the number
\* of capped chunks
C3_Case ==
    /\ ReachedEmbedding /\ run.available /\ EmbeddingReturned
    /\ Len(run.embedded[1].vectors) # Len(run.chunks)

\* C3: when get_embeddings returns a number of vectors other than the number
\* of capped chunks, process_document_upload aborts: it returns
\* success = false with an error, never calls collection.add and stores no
\* record.
C3_CountMismatchIsFatal ==
    C3_Case =>
        /\ ~result.success
        /\ "error" \in DOMAIN result
        /\ \A i \in DOMAIN run.calls : run.calls[i] # "add_documents"
        /\ collections[run.workspace_id] = run.before

\* with the embedding service of the repository the numbers always agree
\* (every chunk has content, so no text is skipped)
CountsAgree == ReachedEmbedding /\ EmbeddingReturned => ~C3_Case

----------------------------------------------------------------------------
(* C4 *)

\* the provider passed the availability check, get_embeddings returned the
\* vectors and collection.add was served
C4_Case ==
    /\ ReachedEmbedding /\ run.available /\ EmbeddingReturned /\ StoreServed

\* C4: with an available provider whose embedding call succeeds, the upload
\* of a document with N capped chunks (1 <= N <= max_chunks_per_document)
\* returns success = true, chunks_processed = N, embeddings_generated = N,
\* storage_mode = "with_embeddings" and no warning, and the collection of the
\* workspace has gained exactly N records, each stored with the vector of
\* its chunk.
C4_HealthyProviderStoresVectors ==
    C4_Case =>
        LET N == Len(run.chunks) IN
        /\ 1 <= N /\ N <= max_chunks_per_document
        /\ result.success
        /\ result.chunks_processed = N
        /\ result.embeddings_generated = N
        /\ result.storage_mode = "with_embeddings"
        /\ result.warning = None
        /\ StoredWithVectors
        /\ \A i \in DOMAIN Gained : Gained[i].metadata.has_embeddings

\* C4 witness: a document of more than max_chunks_per_document pieces was
\* embedded by Gemini without any failure and stored
C4_Witness ==
    /\ C4_Case
    /\ Len(run.document.text) > max_chunks_per_document
    /\ Len(Gained) = max_chunks_per_document
    /\ \A i \in DOMAIN Gained : Gained[i].embedding = Just([text |-> i, by |-> "gemini"])
    /\ result.success /\ result.embeddings_generated = max_chunks_per_document

----------------------------------------------------------------------------
(* C5 *)

\* the text was extracted and chunking it yields no chunk: the text is
\* blank, or the text splitter raises
C5_Case ==
    /\ IsUpload /\ run.document.extraction_success
    /\ BlankText(run.document.text) \/ ~run.document.splitter_ok

\* C5: when chunking the text yields no chunk, process_document_upload
\* returns success = false with an error, calls neither the embedding
\* service nor the vector database and leaves the collection as it was.
C5_NoChunksIsFatal ==
    C5_Case =>
        /\ ~result.success
        /\ "error" \in DOMAIN result
        /\ run.calls = <<>>
        /\ run.embedded = Nothing
        /\ collections[run.workspace_id] = run.before

\* C5 witness: the text has content but the splitter raised, and the upload
\* ended with "No valid chunks created from text"
C5_Witness ==
    /\ C5_Case /\ ~BlankText(run.document.text)
    /\ ~result.success
    /\ result.error.msg = "No valid chunks created from text"

\* the all-whitespace text of the scenario ends in a failure too
C5_WitnessBlank ==
    /\ C5_Case /\ run.document.text = <<0>>
    /\ ~result.success

----------------------------------------------------------------------------
(* C6 *)

\* a query of a workspace whose collection holds no record
C6_Case == IsQuery /\ collections[run.workspace_id] = <<>>

\* C6: a query of a collection with no record returns success = true,
\* search_method = "no_documents", no context chunk and a warning, after the
\* count alone: no embedding request, no vector query and no text query.
C6_EmptyCollectionNoDocuments ==
    C6_Case =>
        /\ result.success
        /\ result.search_method = "no_documents"
        /\ result.context_chunks = <<>>
        /\ result.warning # None
        /\ run.calls = <<"get_collection_info">>
        /\ run.embedded = Nothing

\* C6 witness: with a Gemini key set, a query of a collection nothing was
\* written to, whose count was served
C6_Witness ==
    /\ C6_Case /\ settings.gemini_api_key # ""
    /\ \A w \in Workspaces : collections[w] = <<>>
    /\ "error" \notin DOMAIN run.info
    /\ result.search_method = "no_documents"

----------------------------------------------------------------------------
(* C7, C8, C9 *)

\* the count of the collection was served and is not 0
CountedRecords == IsQuery /\ run.info.count # 0

TextQueryIssued == IsQuery /\ \E i \in DOMAIN run.calls : run.calls[i] = "query_with_text"

\* the query embedding failed with an error classified as quota error
C7_Case ==
    /\ CountedRecords /\ EmbeddingRaised
    /\ QueryClassifies(run.embedded[1].error)

C8_Case ==
    /\ CountedRecords
    /\ \/ EmbeddingRaised /\ ~QueryClassifies(run.embedded[1].error)
       \/ EmbeddingReturned /\ run.embedded[1].vector = <<>>

\* C8: on a collection with records, a failure of the query embedding that
\* is not classified as quota / rate-limit error is not degraded to the text
\* query: query_with_text is not called and the outcome is success = false
\* with the error of the embedding.
C8_OtherFailureIsFatal ==
    C8_Case =>
        /\ ~TextQueryIssued
        /\ run.calls = <<"get_collection_info", "get_query_embedding">>
        /\ ~result.success
        /\ result.error = IF EmbeddingRaised THEN run.embedded[1].error
                          ELSE Error("Failed to generate query embedding", {})

\* C8 witness: the provider raised an error without a quota keyword
C8_Witness ==
    /\ C8_Case /\ EmbeddingRaised
    /\ run.embedded[1].error = Error("sdk", {})
    /\ ~result.success

\* the query embedding failed with a quota error and the text query raised
C9_Case == C7_Case /\ ~run.text_query[1].ok

\* C9: when the query embedding fails with a quota error and the text query
\* fails too, the outcome is success = true with no context chunk,
\* search_method = "failed" and a warning.
C9_BothFailedIsEmptySuccess ==
    C9_Case =>
        /\ result.success
        /\ result.context_chunks = <<>>
        /\ result.search_method = "failed"
        /\ result.warning # None

C9_Witness ==
    /\ C9_Case
    /\ run.text_query[1].error = Error("chroma", {})
    /\ result.success /\ result.search_method = "failed"

----------------------------------------------------------------------------
(* C10 *)

\* C10 as stated: every outcome of query_workspace_knowledge carries
\* success, the context chunks, a search_method and a warning.
C10_EveryOutcomeHasAllFields ==
    IsQuery => {"success", "context_chunks", "search_method", "warning"} \subseteq DOMAIN result

\* C10 amended: query_workspace_knowledge returns a dict in every case; every
\* dict carries success and the context chunks; one with success = true also
\* carries search_method and warning; one with success = false carries the
\* error and no context chunk, and neither search_method nor warning.
C10_StructuredOutcome ==
    IsQuery =>
        /\ {"success", "context_chunks"} \subseteq DOMAIN result
        /\ result.success \in BOOLEAN
        /\ result.success => {"search_method", "warning"} \subseteq DOMAIN result
        /\ ~result.success =>
            /\ "error" \in DOMAIN result
            /\ result.context_chunks = <<>>
            /\ {"search_method", "warning"} \cap DOMAIN result = {}

\* C10 witness: a failed query, after the vector query raised
C10_Witness ==
    /\ IsQuery /\ ~result.success
    /\ run.vector_query # Nothing /\ ~run.vector_query[1].ok
    /\ result.error = Error("chroma", {})

----------------------------------------------------------------------------
(* C11 *)

\* the requested provider has no usable credentials
ConfigError == ~check_provider_availability(run.embedding_provider).available

\* C11: a configuration error of the requested provider degrades like an
\* exhausted quota: an upload whose store write is served ends text-only
\* with success = true, and a query of a collection with records runs the
\* text query and, when that is served, returns success = true with
\* search_method = "text_fallback".
C11_ConfigErrorDegradesLikeQuota ==
    /\ ReachedEmbedding /\ ConfigError /\ StoreServed => TextOnlyOutcome
    /\ CountedRecords /\ ConfigError =>
        /\ TextQueryIssued
        /\ result.success
        /\ run.text_query[1].ok => result.search_method = "text_fallback"

\* the half of C11 that the code has: the upload without credentials
C11_UploadDegrades ==
    ReachedEmbedding /\ ConfigError /\ StoreServed => TextOnlyOutcome

----------------------------------------------------------------------------
(* get_embeddings on its own: any list of texts, either provider requested, *)
(* the requested provider and the other one behaving in any way             *)

\* bound: a call is given at most MaxTexts texts
MaxTexts == 4

\* lists of texts, blank ones (0) among them
EmbedTexts == UNION { [1 .. n -> {0, 1, 2}] : n \in 0 .. MaxTexts }

EmbedProviders == {"gemini", "openai"}

\* the other provider of the fallback
OtherProvider(provider) == IF provider = "gemini" THEN "openai" ELSE "gemini"

\* the arguments of the call and what the two providers will do during it
InitEmbed ==
    /\ settings \in [gemini_api_key : GeminiKeys, openai_api_key : OpenAIKeys]
    /\ collections = [w \in Workspaces |-> <<>>]
    /\ workspaces = {}
    /\ result = NoRun
    /\ \E texts \in EmbedTexts, provider \in EmbedProviders :
       \E bp \in BehavioursIf(NumRequests(texts) > 0, NumRequests(texts)) :
       \E bs \in FallbackBehavioursIf(NumRequests(texts) > 0) :
            run = [op |-> "input", texts |-> texts, provider |-> provider,
                   bg |-> IF provider = "gemini" THEN bp ELSE bs,
                   bo |-> IF provider = "openai" THEN bp ELSE bs]

get_embeddings_call ==
    /\ run.op = "input"
    /\ run' = [run EXCEPT !.op = "get_embeddings"]
    /\ result' = get_embeddings(run.texts, run.provider, run.bg, run.bo)
    /\ UNCHANGED <<settings, collections, workspaces>>

NextEmbed == get_embeddings_call

SpecEmbed == InitEmbed /\ [][NextEmbed]_vars

IsEmbed == run.op = "get_embeddings"

\* what the requested provider and the other one do during the call
PrimaryBehaviour == IF run.provider = "gemini" THEN run.bg ELSE run.bo
SecondaryBehaviour == IF run.provider = "gemini" THEN run.bo ELSE run.bg

\* the call of the requested provider
FirstCall == primary_call(run.texts, run.provider, run.bg, run.bo)

\* the requested provider failed and get_embeddings classifies the error as
\* rate limit / quota error
PrimaryExhausted == IsEmbed /\ ~FirstCall.ok /\ FallbackClassifies(FirstCall.error)

\* the credentials of a provider are set (for OpenAI: not the placeholder)
Configured(provider) ==
    IF provider = "gemini" THEN settings.gemini_api_key # ""
    ELSE settings.openai_api_key \notin {"", "sk-test-"}

----------------------------------------------------------------------------
(* C12, C13, C14 *)

\* the vectors of the texts that are not blank, in the order of the texts,
\* all produced by one provider
VectorsOf(texts, by) ==
    [i \in 1 .. Len(Stripped(texts)) |-> [text |-> Stripped(texts)[i], by |-> by]]

\* the call of the provider get_embeddings falls back to
SecondaryCall ==
    IF run.provider = "gemini" THEN get_openai_embeddings(run.texts, run.bo)
    ELSE get_gemini_embeddings(run.texts, run.bg)

\* the requested provider fails with a quota error and the other provider
\* is configured and answers every request
C12_Case ==
    /\ PrimaryExhausted
    /\ Configured(OtherProvider(run.provider))
    /\ SecondaryBehaviour = Healthy

\* C12: when the call of the requested provider fails with a quota /
\* rate-limit error and the other provider is configured and healthy,
\* get_embeddings returns instead of raising: the vectors of all texts that
\* are not blank, in input order, produced by the other provider.  In both
\* directions.
C12_FallbackEmbedsEverything ==
    C12_Case =>
        /\ result.ok
        /\ result.vectors = VectorsOf(run.texts, OtherProvider(run.provider))

\* C12 witness: Gemini ran out of quota at the last of three requests and
\* OpenAI embedded the three texts
C12_Witness ==
    /\ C12_Case /\ run.provider = "gemini"
    /\ run.texts = <<1, 0, 2, 1>> /\ run.bg.failAt = 3
    /\ result.ok /\ Len(result.vectors) = 3
    /\ \A i \in 1 .. 3 : result.vectors[i].by = "openai"

\* the other direction
C12_WitnessFromOpenAI ==
    /\ C12_Case /\ run.provider = "openai"
    /\ run.texts = <<1, 0, 2, 1>> /\ run.bo.failAt = 1
    /\ result.ok /\ Len(result.vectors) = 3
    /\ \A i \in 1 .. 3 : result.vectors[i].by = "gemini"

\* the requested provider fails with a quota error and the other provider
\* is not configured, or its call fails too
C13_Case ==
    /\ PrimaryExhausted
    /\ ~Configured(OtherProvider(run.provider)) \/ ~SecondaryCall.ok

\* C13: when the requested provider is out of quota and the fallback is not
\* available or fails with any error, get_embeddings raises an error that
\* carries the text of the original one, that the handler of the ingestion
\* turns into text-only storage and that the retrieval classifies as quota
\* error (so that it runs the text query).
C13_ExhaustedErrorDegradesInBothCallers ==
    C13_Case =>
        /\ ~result.ok
        /\ FirstCall.error.kw \subseteq result.error.kw
        /\ embed_handler(result.error).raised = Nothing
        /\ embed_handler(result.error).embedding_failed
        /\ embed_handler(result.error).embeddings = Nothing
        /\ QueryClassifies(result.error)

\* C13 witness: OpenAI was requested and failed with "... exceeded ...",
\* Gemini failed with an error without keyword
C13_Witness ==
    /\ C13_Case /\ run.provider = "openai"
    /\ FirstCall.error = Error("sdk", {"exceeded"})
    /\ Configured("gemini") /\ SecondaryCall.error = Error("sdk", {})
    /\ ~result.ok

\* Gemini requested, no fallback configured
C13_WitnessNoFallback ==
    /\ C13_Case /\ run.provider = "gemini" /\ ~Configured("openai")
    /\ ~result.ok /\ result.error.msg = "Gemini quota exceeded and no valid fallback available"

\* C14: every list get_embeddings returns is the list of the vectors of the
\* texts that are not blank, in the order of the texts: as many vectors as
\* such texts, vector i of the i-th of them, whatever the batches were.
C14_OneVectorPerTextInOrder ==
    IsEmbed /\ result.ok =>
        \E by \in EmbedProviders : result.vectors = VectorsOf(run.texts, by)

\* C14 witness: Gemini embedded four texts, one of them blank, in two batches
C14_Witness ==
    /\ IsEmbed /\ result.ok /\ run.provider = "gemini"
    /\ run.texts = <<1, 0, 2, 1>>
    /\ Len(run.texts) > embedding_batch_size
    /\ result.vectors = VectorsOf(<<1, 2, 1>>, "gemini")

----------------------------------------------------------------------------
(* The two endpoints: upload_document (app/api/workspaces.py) and           *)
(* chat_with_workspace (app/api/chat.py), next to direct calls of the two   *)
(* operations of app/workers/tasks.py                                       *)

\* what the endpoint answers when it raises HTTPException
HTTPError(status_code, detail) == [status_code |-> status_code, detail |-> detail]

\* uuid.uuid4(): an id that is in use nowhere
FreshIds ==
    Workspaces \ ({w.id : w \in workspaces} \cup {w.workspace_uuid : w \in workspaces})

UploadedFiles ==
    [filename : FileNames \cup {"a.txt"}, empty : BOOLEAN]

\* crud.create_workspace: the row gets its id from the column default
\* generate_uuid (id), and the collection name made from workspace_uuid
create_workspace(id, workspace_uuid, doc_name) ==
    [id |-> id, workspace_uuid |-> workspace_uuid,
     chroma_workspace_id |-> collection_name(workspace_uuid), doc_name |-> doc_name]

\* upload_document.  The row is committed by crud.create_workspace, a plain
\* function; the handler applies `await` to the row it returns, which raises
\* TypeError, and the handler answers 500 without having started
\* process_document_upload(file_content, file.filename, workspace_uuid).
upload_document ==
    \E file \in UploadedFiles :
        /\ IF ~(file.filename \in FileNames)
           THEN /\ result' = HTTPError(400, "Only PDF files are supported")
                /\ run' = [op |-> "upload_document", file |-> file, calls |-> <<>>]
                /\ UNCHANGED workspaces
           ELSE IF file.empty
           THEN /\ result' = HTTPError(400, "Empty file")
                /\ run' = [op |-> "upload_document", file |-> file, calls |-> <<>>]
                /\ UNCHANGED workspaces
           ELSE \E workspace_uuid \in FreshIds :
                \E id \in FreshIds \ {workspace_uuid} :
                    /\ workspaces' = workspaces \cup
                           {create_workspace(id, workspace_uuid, file.filename)}
                    /\ result' = HTTPError(500, "Failed to upload document")
                    /\ run' = [op |-> "upload_document", file |-> file,
                               workspace_uuid |-> workspace_uuid, id |-> id,
                               calls |-> <<"create_workspace">>]
        /\ UNCHANGED <<settings, collections>>

\* chat_with_workspace.  crud.get_workspace_by_id(db, workspace_id) is
\* called with the keyword user_id it does not have: TypeError, answered 500
\* by the outer handler before query_workspace_knowledge is reached.  The
\* collection the query would read is the one named after the id of the
\* request, which has to be the id of a row.
chat_with_workspace ==
    \E workspace_id \in Workspaces, query \in Queries :
        /\ result' = HTTPError(500, "Failed to process chat message")
        /\ run' = [op |-> "chat_with_workspace", workspace_id |-> workspace_id,
                   query |-> query, reads |-> collection_name(workspace_id),
                   calls |-> <<"get_workspace_by_id">>]
        /\ UNCHANGED <<settings, collections, workspaces>>

NextApi ==
    \/ upload_document
    \/ chat_with_workspace
    \/ process_document_upload
    \/ query_workspace_knowledge

SpecApi == Init /\ [][NextApi]_vars

----------------------------------------------------------------------------
(* C15 *)

\* C15: retrieval for a workspace reads the collection its ingestion
\* writes: for every workspace upload_document has created, the collection
\* named after the id a chat request has to give is the collection named
\* after the id handed to process_document_upload.
C15_RetrievalReadsIngestedCollection ==
    \A w \in workspaces : collection_name(w.id) = w.chroma_workspace_id

\* C15, end to end: once the ingestion of a workspace upload_document has
\* created has stored records, a query for that workspace does not report
\* "no_documents"
C15_NeverNoDocumentsAfterUpload ==
    IsQuery =>
        \A w \in workspaces :
            w.id = run.workspace_id /\ collections[w.workspace_uuid] # <<>>
                => result.search_method # "no_documents"

\* upload_document has started the ingestion of the workspace it created
C15_UploadStartsIngestion ==
    run.op = "upload_document" /\ "id" \in DOMAIN run
        => \E i \in DOMAIN run.calls : run.calls[i] = "process_document_upload"

----------------------------------------------------------------------------
(* C16 *)

\* collection.count() raised during the query
InfoReadFailed == IsQuery /\ "error" \in DOMAIN run.info

\* the vector query raised
VectorQueryFailed == IsQuery /\ run.vector_query # Nothing /\ ~run.vector_query[1].ok

\* collection.add raised during the upload
StoreWriteFailed == IsUpload /\ run.store # Nothing /\ ~run.store[1].ok

\* C16: a failure of the vector database is fatal for the call it occurs
\* in: an upload whose collection.add raises returns success = false, and a
\* query whose count or whose vector query raises returns success = false;
\* a failed count is never reported as success with "no_documents".
C16_StoreFailureIsFatal ==
    /\ StoreWriteFailed => ~result.success
    /\ InfoReadFailed =>
        /\ ~result.success
        /\ "search_method" \in DOMAIN result => result.search_method # "no_documents"
    /\ VectorQueryFailed => ~result.success

\* the part of C16 the code has: the failed write
C16_WriteFailureIsFatal ==
    StoreWriteFailed =>
        /\ ~result.success
        /\ collections[run.workspace_id] = run.before

\* a failed vector query is fatal unless its text has a quota keyword
C16_VectorQueryFailureIsFatal ==
    VectorQueryFailed /\ ~QueryClassifies(run.vector_query[1].error) => ~result.success

----------------------------------------------------------------------------
(* C17 *)

\* the flags of a record agree with how it is stored
FlagsMatch(record) ==
    /\ record.metadata.has_embeddings = (record.embedding # Nothing)
    /\ record.metadata.processing_mode =
           IF record.embedding # Nothing THEN "with_embeddings" ELSE "text_only"

\* C17: after any sequence of uploads, every record of every collection has
\* has_embeddings = true and processing_mode = "with_embeddings" exactly
\* when it is stored with a vector, and carries the id of the workspace of
\* its collection, the name of its file and its chunk index; the records of
\* the last upload carry the indices 0, 1, ... in order.
C17_RecordFlagsMatchStorage ==
    /\ \A w \in Workspaces : \A i \in DOMAIN collections[w] :
        LET record == collections[w][i] IN
        /\ FlagsMatch(record)
        /\ record.metadata.workspace_id = w
        /\ record.metadata.file_name \in FileNames
        /\ record.metadata.chunk_index \in 0 .. max_chunks_per_document - 1
    /\ IsUpload /\ StoreServed =>
        \A i \in DOMAIN Gained : Gained[i].metadata.chunk_index = i - 1

\* C17 witness: a collection holds records of a text-only upload and, after
\* them, records of an upload with vectors
C17_Witness ==
    /\ IsUpload /\ StoreServed /\ EmbeddingReturned
    /\ run.before # <<>> /\ Gained # <<>>
    /\ \A i \in DOMAIN run.before : run.before[i].embedding = Nothing
    /\ \A i \in DOMAIN Gained : Gained[i].embedding # Nothing
    /\ \A i \in DOMAIN collections[run.workspace_id] :
           FlagsMatch(collections[run.workspace_id][i])

----------------------------------------------------------------------------
(* C18 *)

\* the chunks of the document of the run: its pieces with content
AllChunks == Stripped(run.document.text)

\* the chunks the cap keeps: the first max_chunks_per_document of them
KeptChunks == Take(AllChunks, Min(Len(AllChunks), max_chunks_per_document))

\* C18: an upload embeds and stores the first max_chunks_per_document
\* chunks of the document in their order and no later chunk, all chunks when
\* there are no more than that, and reports
\* chunks_processed = min(number of chunks, max_chunks_per_document).
C18_CapKeepsEarliestChunks ==
    ReachedEmbedding =>
        /\ run.chunks = KeptChunks
        /\ EmbeddingReturned =>
            /\ Len(run.embedded[1].vectors) = Len(KeptChunks)
            /\ \A i \in DOMAIN KeptChunks : run.embedded[1].vectors[i].text = KeptChunks[i]
        /\ StoreServed =>
            /\ Len(Gained) = Len(KeptChunks)
            /\ \A i \in DOMAIN KeptChunks : Gained[i].document = KeptChunks[i]
            /\ result.chunks_processed = Min(Len(AllChunks), max_chunks_per_document)

\* C18 witness: a document of more chunks than the cap was embedded and
\* stored
C18_Witness ==
    /\ ReachedEmbedding /\ EmbeddingReturned /\ StoreServed
    /\ Len(AllChunks) = max_chunks_per_document + 1
    /\ Len(Gained) = max_chunks_per_document
    /\ Gained[1].document = 1
    /\ Gained[max_chunks_per_document].document = max_chunks_per_document
    /\ result.chunks_processed = max_chunks_per_document

\* a document of fewer chunks than the cap is stored whole
C18_WitnessUncapped ==
    /\ ReachedEmbedding /\ StoreServed
    /\ Len(AllChunks) < max_chunks_per_document
    /\ Len(Gained) = Len(AllChunks)

----------------------------------------------------------------------------
(* C19 *)

\* the cap drops chunks of this document
Dropped(doc) == Len(Stripped(doc.text)) > max_chunks_per_document

\* the documents whose upload keeps the chunks this run has kept, and whose
\* chunks the cap treats the other way: dropped there if not here, and
\* not dropped there if dropped here
Counterparts ==
    { d \in Documents :
        /\ d.extraction_success /\ d.splitter_ok
        /\ Capped(chunk_text_simple(d)) = run.chunks
        /\ Dropped(d) # Dropped(run.document) }

\* what this run would have returned for document d, everything else equal
OutcomeFor(d) ==
    UploadSuccess(run.workspace_id, result.file_name, d.text, run.chunks,
                  run.stage[1].embeddings, run.embedding_provider, result.warning)

\* C19: the result of a successful upload tells whether the cap has dropped
\* chunks: a run that dropped chunks and a run that dropped none never
\* return the same result.
C19_OutcomeTellsTruncation ==
    IsUpload /\ StoreServed => \A d \in Counterparts : result # OutcomeFor(d)

\* the result is the one the model computes for the document of the run
\* (so that OutcomeFor compares like with like)
C19_OutcomeForOwnDocument ==
    IsUpload /\ StoreServed => result = OutcomeFor(run.document)

----------------------------------------------------------------------------
(* The vector database under its three writers: add_documents called
   directly, the ingestion pipeline, and the emergency re-processor *)

\* the documents a direct caller of add_documents passes
DirectDocuments == { Pieces(n, FALSE) : n \in 1 .. embedding_batch_size }

\* what the database answers to collection.add, and what it does with an
\* id the collection already holds
AddAnswers == PlainAnswers \cup {StoreOkStrict}

\* chroma_client.add_documents(collection_name, documents, ids=...): the
\* caller passes no ids, or ids of its own that the collection does not hold
add_documents_call ==
    \E workspace_id \in Workspaces, documents \in DirectDocuments, db \in AddAnswers :
    \E ids \in {Nothing, Just(doc_ids(documents, collections[workspace_id]))} :
        LET coll == collections[workspace_id]
            added == add_documents(coll, documents, Nothing, Nothing, ids, db)
        IN
        /\ Stored(Workspaces) + Len(documents) <= MaxStored
        /\ collections' = IF added.ok
                          THEN [collections EXCEPT ![workspace_id] = added.collection]
                          ELSE collections
        /\ run' = [op |-> "add_documents", workspace_id |-> workspace_id,
                   documents |-> documents, ids |-> ids, before |-> coll,
                   store |-> Just(db)]
        /\ result' = IF added.ok THEN [returned |-> TRUE] ELSE [raised |-> added.error]
        /\ UNCHANGED <<settings, workspaces>>

\* the ids the emergency re-processor would hand to add_documents
emergency_doc_ids(chunks, file_name) ==
    [i \in 1 .. Len(chunks) |-> <<"emergency_chunk", i - 1, file_name>>]

\* emergency_process_pdf: a failed extraction returns False; otherwise
\* chunk_text_simple is called with a keyword it does not have (overlap), the
\* TypeError is caught by the handler of the function, which returns False:
\* add_documents is never reached
emergency_process_pdf ==
    \E workspace_id \in Workspaces, file_name \in FileNames, doc \in Documents :
        /\ run' = [op |-> "emergency_process_pdf", workspace_id |-> workspace_id,
                   file_name |-> file_name, document |-> doc,
                   before |-> collections[workspace_id],
                   raised |-> IF doc.extraction_success
                              THEN Just(Error("unexpected keyword argument 'overlap'", {}))
                              ELSE Nothing]
        /\ result' = [returned |-> FALSE]
        /\ UNCHANGED <<settings, collections, workspaces>>

NextStore == add_documents_call \/ process_document_upload \/ emergency_process_pdf

SpecStore == Init /\ [][NextStore]_vars

IsAdd == run.op = "add_documents"

\* the last call has reached add_documents, which returned True
AddReturned ==
    \/ IsAdd /\ "returned" \in DOMAIN result
    \/ IsUpload /\ run.store # Nothing /\ result.success

\* the ids add_documents handed to collection.add in the last call
HandedIds ==
    IF IsAdd
    THEN IF run.ids = Nothing THEN default_ids(run.documents) ELSE run.ids[1]
    ELSE doc_ids(run.chunks, run.before)

\* the documents the last call passed to add_documents
HandedDocuments == IF IsAdd THEN run.documents ELSE run.chunks

\* the ids of a collection are pairwise distinct
DistinctIds(coll) ==
    \A i, j \in 1 .. Len(coll) : coll[i].id = coll[j].id => i = j

\* the records the collection held before the call are still its first records
EarlierKept(before, coll) ==
    Len(before) <= Len(coll) /\ SubSeq(coll, 1, Len(before)) = before

\* every document of the call is a record of its own under the id made for it
AllStored(before, coll, ids, documents) ==
    /\ Len(coll) = Len(before) + Len(documents)
    /\ \A i \in 1 .. Len(documents) :
        /\ coll[Len(before) + i].id = ids[i]
        /\ coll[Len(before) + i].document = documents[i]

----------------------------------------------------------------------------
(* C20 *)

C20_StoredIdsDistinctAndEarlierKept ==
    (IsAdd \/ IsUpload \/ run.op = "emergency_process_pdf") =>
        /\ DistinctIds(collections[run.workspace_id])
        /\ EarlierKept(run.before, collections[run.workspace_id])

\* C20, the part that holds: a call whose ids were not defaulted stores every
\* document under an id of its own
C20_GivenIdsAreUnique ==
    (AddReturned /\ ~(IsAdd /\ run.ids = Nothing)) =>
        /\ \A i \in 1 .. Len(HandedIds) : HandedIds[i] \notin IdsOf(run.before)
        /\ AllStored(run.before, collections[run.workspace_id], HandedIds, HandedDocuments)

\* C20: the first call with defaulted ids on a collection stores everything
C20_FirstDefaultedCallStores ==
    (AddReturned /\ IsAdd /\ run.ids = Nothing /\ IdsOf(run.before) \cap { <<"doc", i>> : i \in 0 .. embedding_batch_size } = {}) =>
        AllStored(run.before, collections[run.workspace_id], HandedIds, HandedDocuments)

\* a call with defaulted ids has returned True on a collection that held
\* records before it
C20_DefaultedOnNonEmpty ==
    AddReturned /\ IsAdd /\ run.ids = Nothing /\ run.before # <<>>

----------------------------------------------------------------------------
(* Two ingestions on one event loop.  process_document_upload is a
   coroutine: it runs without interruption up to `await get_embeddings`,
   where another coroutine may run, and without interruption from there to
   its return (the calls of the vector database are synchronous) *)

Tasks == {"A", "B"}

\* the two uploads go to different workspaces
TaskWorkspace == [A |-> "w1", B |-> "w2"]

OtherTask(t) == IF t = "A" THEN "B" ELSE "A"

Idle == [pc |-> "idle"]

InitTasks ==
    /\ settings \in [gemini_api_key : GeminiKeys, openai_api_key : OpenAIKeys]
    /\ collections = [w \in Workspaces |-> <<>>]
    /\ workspaces = {}
    /\ run = [t \in Tasks |-> Idle]
    /\ result = [t \in Tasks |-> NoRun]

\* Steps 5 and 6 on the collection as it is when the coroutine gets there:
\* the collection afterwards and the dict returned
store_stage(coll, workspace_id, file_name, doc, chunks, provider, st, db) ==
    LET metadatas == [i \in 1 .. Len(chunks) |->
                        Metadata(i, workspace_id, file_name, provider, st.embedding_failed)]
        added == add_documents(coll, chunks, st.embeddings, Just(metadatas),
                               Just(doc_ids(chunks, coll)), db)
    IN IF st.raised # Nothing
       THEN [collection |-> coll, result |-> UploadFailure(workspace_id, st.raised[1])]
       ELSE IF added.ok
       THEN [collection |-> added.collection,
             result |-> UploadSuccess(workspace_id, file_name, doc.text, chunks,
                                      st.embeddings, provider, st.warning_message)]
       ELSE [collection |-> coll, result |-> UploadFailure(workspace_id, added.error)]

\* chunks that coroutines suspended at get_embeddings are still to store
Pending ==
    LET n(t) == IF run[t].pc = "awaiting" THEN Len(run[t].chunks) ELSE 0
    IN n("A") + n("B")

\* the coroutine of task t runs from its call to its first suspension, or to
\* its return when it never reaches get_embeddings
task_start(t) ==
    \E file_name \in FileNames, doc \in Documents, provider \in Providers :
        LET workspace_id == TaskWorkspace[t]
            name == collection_name(workspace_id)
            all == chunk_text_simple(doc)
            chunks == Capped(all)
            status == check_provider_availability(provider)
            early == IF ~doc.extraction_success THEN Just(Error("PDF extraction failed", {}))
                     ELSE IF BlankText(doc.text) THEN Just(Error("No text content found in PDF", {}))
                     ELSE IF all = <<>> THEN Just(Error("No valid chunks created from text", {}))
                     ELSE Nothing
            local == [pc |-> "done", workspace_id |-> workspace_id, file_name |-> file_name,
                      document |-> doc, chunks |-> chunks, embedding_provider |-> provider,
                      before |-> collections[name],
                      overlapped |-> run[OtherTask(t)].pc = "awaiting",
                      stage |-> Nothing, store |-> Nothing]
        IN
        /\ run[t].pc = "idle"
        /\ Stored(Workspaces) + Pending + Len(chunks) <= MaxStored
        /\ IF early # Nothing
           THEN /\ run' = [run EXCEPT ![t] = local]
                /\ result' = [result EXCEPT ![t] = UploadFailure(workspace_id, early[1])]
                /\ UNCHANGED collections
           ELSE IF status.available
           THEN /\ run' = [run EXCEPT ![t] = [local EXCEPT !.pc = "awaiting"]]
                /\ UNCHANGED <<collections, result>>
           ELSE \E db \in PlainAnswers :
                LET st == embed_stage(chunks, status, Ok(<<>>))
                    out == store_stage(collections[name], workspace_id, file_name, doc,
                                       chunks, provider, st, db)
                IN /\ run' = [run EXCEPT ![t] = [local EXCEPT !.stage = Just(st),
                                                              !.store = Just(db)]]
                   /\ collections' = [collections EXCEPT ![name] = out.collection]
                   /\ result' = [result EXCEPT ![t] = out.result]
        /\ UNCHANGED <<settings, workspaces>>

\* get_embeddings has answered: the coroutine runs from there to its return
task_resume(t) ==
    LET l == run[t]
        name == collection_name(l.workspace_id)
    IN
    /\ run[t].pc = "awaiting"
    /\ \E bp \in Behaviours(Len(l.chunks)) :
       \E bs \in FallbackBehavioursIf(TurnsToOther(l.chunks, l.embedding_provider, bp)) :
       \E db \in PlainAnswers :
        LET status == check_provider_availability(l.embedding_provider)
            st == embed_stage(l.chunks, status,
                              Embed(l.chunks, l.embedding_provider, bp, bs))
            out == store_stage(collections[name], l.workspace_id, l.file_name,
                               l.document, l.chunks, l.embedding_provider, st, db)
        IN /\ run' = [run EXCEPT ![t] = [l EXCEPT !.pc = "done",
                                                  !.overlapped = l.overlapped
                                                      \/ run[OtherTask(t)].pc = "awaiting",
                                                  !.stage = Just(st),
                                                  !.store = Just(db)]]
           /\ collections' = [collections EXCEPT ![name] = out.collection]
           /\ result' = [result EXCEPT ![t] = out.result]
    /\ UNCHANGED <<settings, workspaces>>

\* the caller of task t uploads another document
task_again(t) ==
    /\ run[t].pc = "done"
    /\ run' = [run EXCEPT ![t] = Idle]
    /\ result' = [result EXCEPT ![t] = NoRun]
    /\ UNCHANGED <<settings, collections, workspaces>>

NextTasks == \E t \in Tasks : task_start(t) \/ task_resume(t) \/ task_again(t)

SpecTasks == InitTasks /\ [][NextTasks]_vars

\* what the upload of task t does when no other coroutine runs between its
\* call and its return: steps 5 and 6 on the collection it found at its call
Alone(t) ==
    LET l == run[t] IN
    store_stage(l.before, l.workspace_id, l.file_name, l.document, l.chunks,
                l.embedding_provider, l.stage[1], l.store[1])

TaskStored(t) == run[t].pc = "done" /\ run[t].stage # Nothing

----------------------------------------------------------------------------
(* C21 *)

\* C21: an ingestion into one workspace that runs interleaved with an
\* ingestion into another workspace leaves in its collection the records
\* (and so the count) and returns the outcome that it leaves and returns
\* when it runs alone; the collection of a workspace no upload is running
\* or has run for is untouched.
C21_IngestionsDoNotInterfere ==
    \A t \in Tasks :
        /\ TaskStored(t) =>
            /\ collections[collection_name(run[t].workspace_id)] = Alone(t).collection
            /\ get_collection_info(collections[collection_name(run[t].workspace_id)],
                                   StoreOk).count
                 = get_collection_info(Alone(t).collection, StoreOk).count
            /\ result[t] = Alone(t).result
        /\ run[t].pc = "awaiting" =>
            collections[collection_name(run[t].workspace_id)] = run[t].before

\* both uploads have stored records, and each ran while the other was
\* suspended at get_embeddings
C21_Witness ==
    \A t \in Tasks :
        /\ TaskStored(t) /\ run[t].overlapped
        /\ result[t].success
        /\ Len(collections[collection_name(run[t].workspace_id)]) > Len(run[t].before)

----------------------------------------------------------------------------
(* get_embeddings request by request.  A request is issued, is in flight
   until the provider answers, and is answered with a vector or an error;
   the sleeps of the code are events of the log *)

\* what a provider raises for one request: a rate-limit error, another error
RequestErrors == { Error("sdk", {"429", "quota"}), Error("sdk", {}) }

RequestTexts == UNION { [1 .. n -> {0, 1}] : n \in 0 .. MaxTexts - 1 }

InitRequests ==
    /\ settings \in [gemini_api_key : GeminiKeys, openai_api_key : OpenAIKeys]
    /\ collections = [w \in Workspaces |-> <<>>]
    /\ workspaces = {}
    /\ result = NoRun
    /\ \E texts \in RequestTexts, provider \in EmbedProviders :
        run = [op |-> "get_embeddings", pc |-> "called", texts |-> texts,
               provider |-> provider, asking |-> provider, phase |-> "primary",
               k |-> 1, attempt |-> 0, in_flight |-> {}, log |-> <<>>,
               first_error |-> Nothing]

\* text k is the last of its batch: for i in range(0, len(texts), batch_size)
LastOfBatch(texts, k) == k % embedding_batch_size = 0 \/ k = Len(texts)

\* the sleeps after text k of a call: Gemini sleeps embedding_delay_seconds
\* after an answered request that is not the last item of its batch, and
\* embedding_delay_seconds + 1 after a batch that is not the last; OpenAI
\* sleeps 0.1 s after every answered request
Pacing(asking, texts, k, answered) ==
    IF asking = "openai"
    THEN IF answered THEN << <<"sleep", "openai_delay">> >> ELSE <<>>
    ELSE (IF answered /\ ~LastOfBatch(texts, k)
          THEN << <<"sleep", "request_delay">> >> ELSE <<>>)
         \o (IF LastOfBatch(texts, k) /\ k < Len(texts)
             THEN << <<"sleep", "batch_delay">> >> ELSE <<>>)

\* the loops run on from text l.k to the next text that is not blank
RECURSIVE SkipBlank(_)
SkipBlank(l) ==
    IF l.k <= Len(l.texts) /\ l.texts[l.k] = 0
    THEN SkipBlank([l EXCEPT !.k = l.k + 1,
                             !.log = l.log \o Pacing(l.asking, l.texts, l.k, FALSE)])
    ELSE l

\* the call of get_<asking>_embeddings starts: its key check, then its loop
StartProvider(l, asking, phase) ==
    SkipBlank([l EXCEPT !.pc = "running", !.asking = asking, !.phase = phase,
                        !.k = 1, !.attempt = 0])

KeyMissing(asking) ==
    IF asking = "openai" THEN ~openai_client ELSE settings.gemini_api_key = ""

KeyError(asking) ==
    IF asking = "openai" THEN Error("OpenAI API key not configured", {})
    ELSE Error("Gemini API key not configured", {})

\* get_<asking>_embeddings has raised e: the handler of get_embeddings
Failed(l, e) ==
    LET done(err) == [l EXCEPT !.pc = "failed", !.first_error = Just(err)]
        other == OtherProvider(l.provider)
        turn == [l EXCEPT !.first_error = Just(e)]
    IN
    IF l.phase = "fallback"
    THEN IF l.provider = "gemini"
         THEN done(Error("Gemini quota exceeded and no valid fallback available",
                         l.first_error[1].kw \cup {"quota", "exceeded"}))
         ELSE done(Error("Both OpenAI and Gemini embedding providers failed",
                         l.first_error[1].kw \cup e.kw))
    ELSE IF ~FallbackClassifies(e) THEN done(e)
    ELSE IF l.provider = "gemini"
         THEN IF openai_fallback_configured
              THEN StartProvider(turn, other, "fallback")
              ELSE done(Error("Gemini quota exceeded and no valid fallback available",
                              e.kw \cup {"quota", "exceeded"}))
         ELSE IF settings.gemini_api_key # ""
              THEN StartProvider(turn, other, "fallback")
              ELSE done(Error("OpenAI rate limit exceeded and no Gemini API key configured",
                              e.kw \cup {"rate limit", "exceeded"}))

\* the outcome is written when the call has returned or raised
Returned(l) ==
    IF l.pc = "failed" THEN Raise(l.first_error[1])
    ELSE IF l.pc = "running" /\ l.k > Len(l.texts) /\ l.in_flight = {}
    THEN Ok(Embedded(l.texts, Len(l.texts), l.asking))
    ELSE NoRun

Finish(l) ==
    /\ run' = IF Returned(l) = NoRun THEN l
              ELSE [l EXCEPT !.pc = IF l.pc = "failed" THEN "raised" ELSE "returned"]
    /\ result' = Returned(l)
    /\ UNCHANGED <<settings, collections, workspaces>>

\* get_embeddings is called: the key check of the requested provider
get_embeddings_begin ==
    /\ run.op = "get_embeddings" /\ run.pc = "called"
    /\ Finish(IF KeyMissing(run.provider)
              THEN Failed(run, KeyError(run.provider))
              ELSE StartProvider(run, run.provider, "primary"))

\* the submission of the first batch that does not wait for the batch
\* before it
Awaited_FireAndForget(l) == TRUE

\* await loop.run_in_executor(...): the coroutine goes on only when the job
\* it submitted has returned, and the job issues its requests one by one
Awaited(l) == l.in_flight = {}

\* the request for text k is issued: embeddings.create / genai.embed_content
issue_request ==
    /\ run.op = "get_embeddings" /\ run.pc = "running"
    /\ run.k <= Len(run.texts)
    /\ Awaited(run)
    /\ run' = [run EXCEPT !.attempt = run.attempt + 1,
                          !.in_flight = run.in_flight \cup {<<run.k, run.attempt + 1>>},
                          !.log = run.log \o
                              << <<"request", run.asking, run.k, run.attempt + 1>> >>]
    /\ UNCHANGED <<settings, collections, workspaces, result>>

\* a retry loop that makes one attempt more
MaxAttempts_OneMore(asking) == IF asking = "gemini" THEN max_retries + 1 ELSE 1

\* the attempts _retry_with_backoff makes for one request; OpenAI requests
\* are not wrapped in it
MaxAttempts(asking) == IF asking = "gemini" THEN max_retries ELSE 1

\* a request in flight is answered
request_answered ==
    /\ run.op = "get_embeddings" /\ run.pc = "running"
    /\ \E r \in run.in_flight :
        LET l == [run EXCEPT !.in_flight = run.in_flight \ {r}] IN
        \/ Finish(SkipBlank([l EXCEPT
                !.k = l.k + 1, !.attempt = 0,
                !.log = l.log \o << <<"answer", l.asking, r[1], r[2]>> >>
                              \o Pacing(l.asking, l.texts, l.k, TRUE)]))
        \/ \E e \in RequestErrors :
            LET le == [l EXCEPT !.log = l.log \o << <<"error", l.asking, r[1], r[2], e>> >>]
            IN
            IF l.asking = "gemini" /\ RetryClassifies(e)
            THEN IF r[2] < MaxAttempts(l.asking)
                 THEN Finish([le EXCEPT !.log = le.log \o << <<"sleep", "backoff">> >>])
                 ELSE Finish(Failed(
                        [le EXCEPT !.log = le.log \o << <<"sleep", "rate_limit_pause">> >>],
                        Error("Embedding quota exceeded", {"quota", "exceeded"})))
            ELSE Finish(Failed(le, e))

NextRequests == get_embeddings_begin \/ issue_request \/ request_answered

SpecRequests == InitRequests /\ [][NextRequests]_vars

\* the event loop runs a coroutine that can run, and a provider answers
\* every request
FairSpecRequests == SpecRequests /\ WF_vars(NextRequests)

IsCall == run.op = "get_embeddings" /\ "log" \in DOMAIN run

CallEnded == IsCall /\ run.pc \in {"returned", "raised"}

\* the events of a kind in the log
Events(kind) == SelectSeq(run.log, LAMBDA ev : ev[1] = kind)


\* the requests of the log, in the order of their issue
Requests == Events("request")

\* number of requests the call has issued to a provider for text k
Issued(provider, k) ==
    Len(SelectSeq(Requests, LAMBDA ev : ev[2] = provider /\ ev[3] = k))

----------------------------------------------------------------------------
(* C22 *)

\* at most max_retries requests per text go to Gemini and at most one per
\* text to OpenAI, none for a blank text; once a request has gone to the
\* fallback provider no request goes to the requested provider again
RequestsBounded ==
    IsCall =>
        /\ \A k \in 1 .. Len(run.texts) :
            /\ Issued("gemini", k) <= (IF run.texts[k] = 0 THEN 0 ELSE max_retries)
            /\ Issued("openai", k) <= (IF run.texts[k] = 0 THEN 0 ELSE 1)
        /\ Len(Requests) <= (max_retries + 1) * Len(run.texts)
        /\ \A i, j \in 1 .. Len(Requests) :
            (i < j /\ Requests[i][2] # run.provider) => Requests[j][2] # run.provider

\* the call has ended in exactly one way: it has returned vectors or raised
EndedOneWay ==
    CallEnded =>
        /\ run.in_flight = {}
        /\ (run.pc = "returned") = result.ok
        /\ (run.pc = "raised") = ~result.ok

\* C22: every call of the embedding service, which holds the only loops of
\* an ingestion or retrieval call, runs to completion whatever the providers
\* answer: it returns or raises, after at most max_retries requests per text
\* to the provider that retries and one pass over the texts on the other
\* provider, and never goes back to the requested provider after the fallback.
C22_CallsRunToCompletion ==
    /\ <>CallEnded
    /\ [](RequestsBounded /\ EndedOneWay)

\* a call has ended after max_retries attempts for one text on Gemini and a
\* pass over the texts on OpenAI
C22_Witness ==
    /\ CallEnded /\ result.ok /\ run.phase = "fallback"
    /\ \E k \in 1 .. Len(run.texts) : Issued("gemini", k) = max_retries
    /\ \E k \in 1 .. Len(run.texts) : Issued("openai", k) = 1


----------------------------------------------------------------------------
(* C23 *)

\* the event that follows the error at position i of the log, sleeps skipped,
\* is the request for the same text with the next attempt number
Reissued(i) ==
    LET ev == run.log[i]
        later == { j \in i + 1 .. Len(run.log) : run.log[j][1] # "sleep" }
    IN /\ later # {}
       /\ LET j == CHOOSE j \in later : \A h \in later : j <= h
          IN run.log[j] = <<"request", ev[2], ev[3], ev[4] + 1>>

\* the errors of the log whose consequences the log shows: every error of
\* an ended call
ErrorsOf(providers) ==
    { i \in 1 .. Len(run.log) : run.log[i][1] = "error" /\ run.log[i][2] \in providers }

\* C23: once the call has ended, a request to either provider was issued
\* again exactly when its attempt failed with a rate-limit error and fewer
\* than max_retries attempts had been made.
C23_ReissuedIffQuotaAndAttemptsLeft ==
    CallEnded =>
        \A i \in ErrorsOf({"gemini", "openai"}) :
            Reissued(i) <=> (RetryClassifies(run.log[i][5]) /\ run.log[i][4] < max_retries)

\* C23 for the provider whose requests go through _retry_with_backoff
C23_GeminiReissuedIffQuotaAndAttemptsLeft ==
    CallEnded =>
        \A i \in ErrorsOf({"gemini"}) :
            /\ Reissued(i) <=> (RetryClassifies(run.log[i][5]) /\ run.log[i][4] < max_retries)
            /\ (~RetryClassifies(run.log[i][5]) /\ run.phase = "primary" /\ ~result.ok
                  /\ ~FallbackClassifies(run.log[i][5]))
                => result.error = run.log[i][5]

\* C23: a request to OpenAI is issued once, whatever its error
C23_OpenAINeverReissued ==
    IsCall => \A k \in 1 .. Len(run.texts) : Issued("openai", k) <= 1

\* a Gemini request has failed max_retries times with rate-limit errors
C23_GeminiExhausted ==
    /\ CallEnded
    /\ \E i \in ErrorsOf({"gemini"}) : run.log[i][4] = max_retries


----------------------------------------------------------------------------
(* C24 *)

\* the batch of text k, counted from 1
BatchOf(k) == (k - 1) \div embedding_batch_size + 1

\* C24: at no point of a get_embeddings call are two of its requests in
\* flight, and a request is issued only when every request issued before it,
\* in its own batch or in an earlier one, has been answered.
C24_RequestsAreSerialized ==
    IsCall =>
        /\ Cardinality(run.in_flight) <= 1
        /\ \A i \in 1 .. Len(run.log) :
            run.log[i][1] = "request" =>
                \A h \in 1 .. i - 1 :
                    run.log[h][1] = "request" =>
                        \E a \in h + 1 .. i - 1 :
                            /\ run.log[a][1] \in {"answer", "error"}
                            /\ run.log[a][3] = run.log[h][3]
                            /\ run.log[a][4] = run.log[h][4]
                            /\ run.log[a][2] = run.log[h][2]

\* a request of the second batch is in flight, the requests of the first
\* batch having been answered
C24_Witness ==
    /\ IsCall /\ run.asking = "gemini"
    /\ \E r \in run.in_flight : BatchOf(r[1]) = 2
    /\ \E i \in 1 .. Len(run.log) : run.log[i][1] = "answer" /\ BatchOf(run.log[i][3]) = 1


----------------------------------------------------------------------------
(* C25 *)

\* positions of the answered requests in the log
Answers == { i \in 1 .. Len(run.log) : run.log[i][1] = "answer" }

\* answered requests i < j of the same provider with no answered request
\* between them
Consecutive(i, j) ==
    /\ i \in Answers /\ j \in Answers /\ i < j
    /\ run.log[i][2] = run.log[j][2]
    /\ \A h \in Answers : ~(i < h /\ h < j)

\* the sleeps of a kind between positions i and j of the log
SleepsBetween(i, j, kind) ==
    Cardinality({ h \in i + 1 .. j - 1 : run.log[h] = <<"sleep", kind>> })

PacingKinds == {"request_delay", "batch_delay", "openai_delay"}

\* C25: in an ended call, between two consecutive answered requests of the
\* same batch lies the configured per-request delay, between the last
\* answered request of a batch and the first of a later batch the longer
\* batch delay, and no pacing delay follows the last answered request.
C25_PacingBetweenRequestsOnly ==
    CallEnded =>
        /\ \A i, j \in Answers :
            Consecutive(i, j) =>
                IF BatchOf(run.log[i][3]) = BatchOf(run.log[j][3])
                THEN SleepsBetween(i, j, "request_delay") >= 1
                ELSE SleepsBetween(i, j, "batch_delay") >= 1
        /\ \A i \in Answers :
            (\A h \in Answers : h <= i) =>
                \A kind \in PacingKinds : SleepsBetween(i, Len(run.log) + 1, kind) = 0

\* C25, what holds: a sleep lies between any two consecutive answered
\* requests of one provider
C25_SomeDelayBetweenRequests ==
    CallEnded =>
        \A i, j \in Answers :
            Consecutive(i, j) => \E kind \in PacingKinds : SleepsBetween(i, j, kind) >= 1

\* C25, what holds for Gemini when no text is blank: the delays are the
\* configured ones and none follows the last request
C25_GeminiPacingWithoutBlanks ==
    (CallEnded /\ \A k \in 1 .. Len(run.texts) : run.texts[k] # 0) =>
        /\ \A i, j \in Answers :
            (Consecutive(i, j) /\ run.log[i][2] = "gemini") =>
                IF BatchOf(run.log[i][3]) = BatchOf(run.log[j][3])
                THEN SleepsBetween(i, j, "request_delay") >= 1
                ELSE SleepsBetween(i, j, "batch_delay") >= 1
        /\ \A i \in Answers :
            ((\A h \in Answers : h <= i) /\ run.log[i][2] = "gemini" /\ result.ok) =>
                \A kind \in PacingKinds : SleepsBetween(i, Len(run.log) + 1, kind) = 0

\* a Gemini call over two batches has returned
C25_GeminiTwoBatches ==
    /\ CallEnded /\ result.ok /\ run.asking = "gemini"
    /\ \E i \in Answers : BatchOf(run.log[i][3]) = 2
    /\ \A k \in 1 .. Len(run.texts) : run.texts[k] # 0


----------------------------------------------------------------------------
(* C26 *)

\* C26: after process_document_upload has returned success=false its
\* collection holds exactly the records it held before the call, and after
\* success=true it holds those records followed by chunks_processed new ones.
C26_FailureStoresNothing ==
    IsUpload =>
        LET coll == collections[run.workspace_id] IN
        IF result.success
        THEN /\ EarlierKept(run.before, coll)
             /\ Len(coll) = Len(run.before) + result.chunks_processed
             /\ \A i \in 1 .. Len(run.chunks) :
                    coll[Len(run.before) + i].document = run.chunks[i]
        ELSE coll = run.before

\* an upload into a collection that held records has succeeded
C26_Witness ==
    /\ IsUpload /\ result.success
    /\ run.before # <<>>
    /\ result.chunks_processed > 0

\* an upload into a collection that held records has failed at the write
C26_WitnessFailedWrite ==
    /\ StoreWriteFailed /\ ~result.success
    /\ run.before # <<>>
    /\ run.chunks # <<>>


----------------------------------------------------------------------------
(* C27 *)

\* the providers that produced the vectors a call returned
ProducersOf(vectors) == { vectors[i].by : i \in 1 .. Len(vectors) }

\* C27: the vectors a successful get_embeddings call returns all come from
\* one provider: from the requested one when it did not fail, and otherwise
\* from the other one, the vectors the requested provider had produced
\* before it failed not being among them.
C27_VectorsFromOneProvider ==
    (IsEmbed /\ result.ok) =>
        /\ Cardinality(ProducersOf(result.vectors)) <= 1
        /\ ProducersOf(result.vectors) \subseteq
              {IF FirstCall.ok THEN run.provider ELSE OtherProvider(run.provider)}
        /\ Len(result.vectors) = NumRequests(run.texts)

\* Gemini has answered the requests of its first batch and failed in a later
\* one, and the call has returned the vectors of OpenAI
C27_Witness ==
    /\ IsEmbed /\ result.ok /\ run.provider = "gemini"
    /\ PrimaryExhausted
    /\ PrimaryBehaviour.failAt > embedding_batch_size
    /\ ProducersOf(result.vectors) = {"openai"}


----------------------------------------------------------------------------
(* C28 *)

\* a request of the requested provider fails during the call
RequestFails ==
    /\ IsEmbed /\ Configured(run.provider)
    /\ PrimaryBehaviour.failAt \in 1 .. NumRequests(run.texts)

\* the verdicts (quota / rate limit or not) of the layers the error of the
\* failing request passes, in the order it passes them: the retry helper and
\* the batch handler (Gemini only), get_embeddings, and the two callers
Verdicts ==
    LET b == PrimaryBehaviour
        r == _retry_with_backoff(b, b.failAt)
        service == IF run.provider = "gemini"
                   THEN <<RetryClassifies(b.err)>> \o
                        (IF r.ok THEN <<>>
                         ELSE <<BatchClassifies(r.error), FallbackClassifies(FirstCall.error)>>)
                   ELSE <<FallbackClassifies(FirstCall.error)>>
        callers == IF result.ok THEN <<>>
                   ELSE <<IngestClassifies(result.error), QueryClassifies(result.error)>>
    IN service \o callers

\* C28: the layers that an error passes agree on whether it is a quota /
\* rate-limit error.
C28_ClassificationIsConsistent ==
    RequestFails => \A i, j \in 1 .. Len(Verdicts) : Verdicts[i] = Verdicts[j]

\* C28, what holds: the layers agree on errors that carry one of the markers
\* every list has ("429", "quota", "rate limit") and on errors without any marker
C28_CommonMarkersAreConsistent ==
    (RequestFails /\ (PrimaryBehaviour.err.kw = {}
                      \/ PrimaryBehaviour.err.kw \cap {"429", "quota", "rate limit"} # {})) =>
        \A i, j \in 1 .. Len(Verdicts) : Verdicts[i] = Verdicts[j]

\* an error has passed every layer up to the callers
C28_ErrorReachedCallers ==
    RequestFails /\ run.provider = "gemini" /\ ~result.ok /\ Len(Verdicts) = 5
      /\ PrimaryBehaviour.err.kw \cap {"429", "quota", "rate limit"} # {}


----------------------------------------------------------------------------
(* C29 *)

\* the records the last upload stored carry a vector
GainedVectors == { i \in DOMAIN Gained : Gained[i].embedding # Nothing }

\* C29: every record an upload stores with a vector names in its metadata,
\* and the outcome names, the provider that produced the vector.
C29_RecordedProviderProducedVector ==
    (IsUpload /\ result.success) =>
        \A i \in GainedVectors :
            /\ Gained[i].metadata.embedding_provider = Gained[i].embedding[1].by
            /\ result.embedding_provider = Gained[i].embedding[1].by

\* C29, what holds: the recorded provider is the requested one, which
\* produced the vectors unless get_embeddings turned to the other provider
C29_RecordedProviderIsRequested ==
    (IsUpload /\ result.success) =>
        \A i \in GainedVectors :
            /\ Gained[i].metadata.embedding_provider = run.embedding_provider
            /\ result.embedding_provider = run.embedding_provider
            /\ (run.embedded[1].ok /\ Gained[i].embedding[1].by # run.embedding_provider)
                 => Gained[i].embedding[1].by = OtherProvider(run.embedding_provider)

\* an upload has stored vectors of the requested provider
C29_StoredByRequested ==
    /\ IsUpload /\ result.success /\ GainedVectors # {}
    /\ \A i \in GainedVectors : Gained[i].embedding[1].by = run.embedding_provider


----------------------------------------------------------------------------
(* C30 *)

\* the collection of the last query holds records and none of them a vector
TextOnlyCollection ==
    /\ IsQuery
    /\ collections[run.workspace_id] # <<>>
    /\ \A i \in DOMAIN collections[run.workspace_id] :
        /\ collections[run.workspace_id][i].embedding = Nothing
        /\ ~collections[run.workspace_id][i].metadata.has_embeddings

\* C30: a query on a collection that holds text-only records issues no
\* vector query; when the collection could be read it is searched by text.
C30_TextOnlyCollectionSearchedLexically ==
    TextOnlyCollection =>
        /\ run.vector_query = Nothing
        /\ "query_collection" \notin { run.calls[i] : i \in DOMAIN run.calls }
        /\ (run.info.count # 0 /\ run.embedded # Nothing /\ run.embedded[1].ok
              /\ run.embedded[1].vector # <<>>) =>
              /\ run.text_query # Nothing
              /\ result.search_method \in {"text_fallback", "failed"}

\* C30, what holds: a text-only collection is searched by text exactly when
\* the query embedding, or the vector query, fails with an error the
\* coordinator classifies as quota
C30_LexicalOnlyAfterQuotaError ==
    (TextOnlyCollection /\ run.text_query # Nothing) =>
        /\ ~embedding_search(collections[run.workspace_id], run.embedded[1],
                             IF run.vector_query = Nothing THEN StoreOk
                             ELSE run.vector_query[1]).ok
        /\ result.search_method \in {"text_fallback", "failed"}

\* a text-only collection has been searched by text
C30_TextOnlySearchedByText ==
    TextOnlyCollection /\ run.text_query # Nothing /\ result.search_method = "text_fallback"

=============================================================================
